---- MODULE Spec2Model ----
(***************************************************************************)
(* FHIR Nudge proxy (src/fhir_nudge/app.py): the lazily loaded capability  *)
(* index, the prevalidation of read and search requests, and the handling  *)
(* of the upstream response, as a state machine over request threads.      *)
(***************************************************************************)
EXTENDS Integers, Sequences, FiniteSets, TLC

(***************************************************************************)
(* Bounds of the model.                                                    *)
(***************************************************************************)
\* Worker threads of the server (requests in flight at the same time).
NumThreads == 2
\* The most values one query key is given in one request.
MaxOcc == 2
\* GETs of <FHIR_SERVER_URL>/metadata the model follows.
MaxMetadataCalls == 2

(***************************************************************************)
(* Program constants.                                                      *)
(***************************************************************************)
\* FHIR_ID_PATTERN's quantifier {1,64}.
MinIdLen == 1
MaxIdLen == 64
\* The status of every prevalidation failure.
BadRequest == 400

Threads == 1..NumThreads

\* Python's None where a string is expected (a JSON null, an absent key).
Null == "<None>"
NL == "\n"

(***************************************************************************)
(* JSON values, tagged by their Python type.                               *)
(***************************************************************************)
JObj(fields) == [t |-> "obj", v |-> fields]
JArr(items) == [t |-> "arr", v |-> items]
JStr(s) == [t |-> "str", v |-> s]
JNull == [t |-> "null", v |-> Null]

\* dict.get(key, default)
Get(obj, key, default) == IF key \in DOMAIN obj THEN obj[key] ELSE default

\* A JSON string or null as the Python value stored in a descriptor.
PyStr(j) == IF j.t = "str" THEN j.v ELSE Null

(***************************************************************************)
(* Capability documents the metadata endpoint may serve.                   *)
(***************************************************************************)
\* Patient declares `name`, a descriptor without a name and one whose name
\* is empty; Basic declares no search parameter.
DocA ==
  JObj([rest |-> JArr(<<
    JObj([resource |-> JArr(<<
      JObj([type |-> JStr("Patient"),
            searchParam |-> JArr(<<
              JObj([name |-> JStr("name"), type |-> JStr("string"),
                    documentation |-> JStr("Patient name")]),
              JObj([type |-> JStr("token")]),
              JObj([name |-> JStr(""), type |-> JStr("date")]) >>)]),
      JObj([type |-> JStr("Basic")]) >>)]) >>)])

\* A later revision of the server's document: Patient declares `name` and
\* `_id`, Basic an empty searchParam list.
DocB ==
  JObj([rest |-> JArr(<<
    JObj([resource |-> JArr(<<
      JObj([type |-> JStr("Patient"),
            searchParam |-> JArr(<<
              JObj([name |-> JStr("name"), type |-> JStr("string")]),
              JObj([name |-> JStr("_id"), type |-> JStr("token")]) >>)]),
      JObj([type |-> JStr("Basic"), searchParam |-> JArr(<<>>)]) >>)]) >>)])

\* A document in which Basic declares descriptors without a usable name.
DocC ==
  JObj([rest |-> JArr(<<
    JObj([resource |-> JArr(<<
      JObj([type |-> JStr("Patient"),
            searchParam |-> JArr(<<
              JObj([name |-> JStr("name"), type |-> JStr("string")]) >>)]),
      JObj([type |-> JStr("Basic"),
            searchParam |-> JArr(<<
              JObj([type |-> JStr("token")]),
              JObj([name |-> JStr(""), type |-> JStr("date")]) >>)]) >>)]) >>)])

\* Documents whose walk raises: `rest` is null, a resource is not an object.
DocRestNull == JObj([rest |-> JNull])
DocBadResource == JObj([rest |-> JArr(<< JObj([resource |-> JArr(<< JStr("Patient") >>)]) >>)])

(***************************************************************************)
(* load_capability_statement                                               *)
(***************************************************************************)
Raised == [ok |-> FALSE]
Returned(v) == [ok |-> TRUE, val |-> v]

\* `for x in j`: a list yields its items, None raises TypeError; a str
\* yields its characters and a dict its keys, all of them str.
Iterable(j) == j.t # "null"
Items(j) ==
  IF j.t = "arr" THEN j.v
  ELSE IF j.t = "str" /\ j.v # "" THEN << JStr(j.v) >>
  ELSE IF j.t = "obj" /\ DOMAIN j.v # {} THEN << JStr("key") >>
  ELSE << >>

\* param_obj of one searchParam entry (lines 73-78).
ParamObj(param) ==
  [name |-> PyStr(Get(param.v, "name", JNull)),
   type |-> PyStr(Get(param.v, "type", JNull)),
   documentation |-> PyStr(Get(param.v, "documentation", JNull)),
   example |-> PyStr(Get(param.v, "example", JNull))]

\* The inner loop over resource.get("searchParam", []) (lines 70-79).
RECURSIVE ParamObjs(_)
ParamObjs(params) ==
  IF params = << >> THEN Returned(<< >>)
  ELSE IF Head(params).t # "obj" THEN Raised
  ELSE LET rest == ParamObjs(Tail(params)) IN
       IF rest.ok THEN Returned(<< ParamObj(Head(params)) >> \o rest.val)
       ELSE Raised

\* index[resource_type] = param_objs
IndexPut(index, k, v) ==
  [x \in (DOMAIN index) \cup {k} |-> IF x = k THEN v ELSE index[x]]

\* The loop over rest.get("resource", []) (lines 67-80).
RECURSIVE WalkResources(_, _)
WalkResources(resources, index) ==
  IF resources = << >> THEN Returned(index)
  ELSE LET resource == Head(resources) IN
       IF resource.t # "obj" THEN Raised
       ELSE LET sp == Get(resource.v, "searchParam", JArr(<< >>)) IN
            IF ~Iterable(sp) THEN Raised
            ELSE LET objs == ParamObjs(Items(sp)) IN
                 IF ~objs.ok THEN Raised
                 ELSE WalkResources(Tail(resources),
                        IndexPut(index, PyStr(Get(resource.v, "type", JNull)), objs.val))

\* The loop over data.get("rest", []) (lines 66-80).
RECURSIVE WalkRest(_, _)
WalkRest(rests, index) ==
  IF rests = << >> THEN Returned(index)
  ELSE LET rest == Head(rests) IN
       IF rest.t # "obj" THEN Raised
       ELSE LET rs == Get(rest.v, "resource", JArr(<< >>)) IN
            IF ~Iterable(rs) THEN Raised
            ELSE LET r == WalkResources(Items(rs), index) IN
                 IF ~r.ok THEN Raised ELSE WalkRest(Tail(rests), r.val)

EmptyIndex == [x \in {} |-> << >>]

\* requests.Response.raise_for_status: HTTPError for 4xx and 5xx.
raise_for_status_raises(status) == status >= 400 /\ status < 600

\* The try block of load_capability_statement on the metadata response m:
\* Returned(index), or Raised when the except branch is taken.
load_capability_statement_try(m) ==
  IF m.exc THEN Raised
  ELSE IF raise_for_status_raises(m.status) THEN Raised
  ELSE IF m.body.kind # "json" THEN Raised
  ELSE LET data == m.body.data IN
       IF data.t # "obj" THEN Raised
       ELSE LET rests == Get(data.v, "rest", JArr(<< >>)) IN
            IF ~Iterable(rests) THEN Raised
            ELSE WalkRest(Items(rests), EmptyIndex)

(***************************************************************************)
(* Requests.                                                               *)
(***************************************************************************)
\* The characters of FHIR_ID_PATTERN's class [A-Za-z0-9\-\.].
IdClass ==
  {"A","B","C","D","E","F","G","H","I","J","K","L","M",
   "N","O","P","Q","R","S","T","U","V","W","X","Y","Z",
   "a","b","c","d","e","f","g","h","i","j","k","l","m",
   "n","o","p","q","r","s","t","u","v","w","x","y","z",
   "0","1","2","3","4","5","6","7","8","9","-","."}

Rep(c, k) == [i \in 1..k |-> c]

\* Resource ids a read request may carry (the route delivers at least one
\* character, none of them '/'): strings of characters.
ResourceIds ==
  { Rep("a", 1),
    << "Z", "9", "-", "." >>,
    Rep("a", MaxIdLen),
    Rep("a", MaxIdLen + 1),
    << "a", "!" >>,
    << "!", "a" >>,
    << "a", NL >>,
    << "a", NL, "b" >>,
    Rep("a", MaxIdLen) \o << NL >> }

ResourceTypes == {"Patient", "Basic", "Patiant"}

\* The keys a search request may carry.
ParamKeys == {"name", "_id", "nmae", ""}

\* request.args: each key with the number of values it was given (a
\* MultiDict holds a list of values per key; a key with none is absent).
QueryArgs == [ParamKeys -> 0..MaxOcc]

\* `for key in query_params`
Keys(query_params) == {k \in DOMAIN query_params : query_params[k] > 0}

NoId == << >>
NoArgs == [k \in ParamKeys |-> 0]

ReadRequest(resource, resource_id) ==
  [route |-> "read", resource |-> resource, resource_id |-> resource_id, args |-> NoArgs]
SearchRequest(resource, args) ==
  [route |-> "search", resource |-> resource, resource_id |-> NoId, args |-> args]

Requests ==
  {ReadRequest(r, i) : r \in ResourceTypes, i \in ResourceIds}
    \cup {SearchRequest(r, a) : r \in ResourceTypes, a \in QueryArgs}

NoRequest == [route |-> "none", resource |-> Null, resource_id |-> NoId, args |-> NoArgs]

\* request.args with the one key k given n values.
OneKey(k, n) == [x \in ParamKeys |-> IF x = k THEN n ELSE 0]

\* The requests the threads of the system are given: one of each outcome of
\* prevalidation, on either route.
SampleRequests ==
  { ReadRequest("Patiant", Rep("a", 1)),
    ReadRequest("Patient", << "a", "!" >>),
    ReadRequest("Patient", Rep("a", 1)),
    SearchRequest("Patiant", OneKey("name", 1)),
    SearchRequest("Patient", OneKey("name", 2)),
    SearchRequest("Patient", OneKey("nmae", 1)),
    SearchRequest("Patient", NoArgs),
    SearchRequest("Patient", OneKey("name", 1)) }

(***************************************************************************)
(* FHIR_ID_PATTERN = re.compile(r"^[A-Za-z0-9\-\.]{1,64}$")                *)
(***************************************************************************)
\* Python's `$` (no re.MULTILINE) at position n of s: the end of the
\* string, or just before a newline that is the string's last character.
DollarMatchesAfter(s, n) ==
  \/ n = Len(s)
  \/ n = Len(s) - 1 /\ s[Len(s)] = NL

\* FHIR_ID_PATTERN.match(resource_id) is not None
FHIR_ID_PATTERN_match(resource_id) ==
  \E n \in MinIdLen..MaxIdLen :
    /\ n <= Len(resource_id)
    /\ \A i \in 1..n : resource_id[i] \in IdClass
    /\ DollarMatchesAfter(resource_id, n)

(***************************************************************************)
(* Python values of an error context and str.format                        *)
(***************************************************************************)
PyInt(n) == [t |-> "int", v |-> n]

\* repr() of a list of str: ['a', 'b']
RECURSIVE ReprItems(_)
ReprItems(strs) ==
  IF strs = << >> THEN ""
  ELSE "'" \o Head(strs) \o "'"
         \o (IF Len(strs) > 1 THEN ", " ELSE "") \o ReprItems(Tail(strs))
ReprList(strs) == "[" \o ReprItems(strs) \o "]"

\* str(v), as "{field}" formats a context value.
PyFormat(v) ==
  CASE v.t = "str" -> v.v
    [] v.t = "null" -> "None"
    [] v.t = "int" -> ToString(v.v)
    [] v.t = "arr" -> ReprList([i \in DOMAIN v.v |-> v.v[i].v])

\* A format string: literal text and {field} replacement fields.
Lit(s) == [lit |-> TRUE, s |-> s]
Fld(f) == [lit |-> FALSE, s |-> f]

\* template.format(**format_data): KeyError when a field is no key.
RECURSIVE Format(_, _)
Format(template, format_data) ==
  IF template = << >> THEN Returned("")
  ELSE LET seg == Head(template)
           rest == Format(Tail(template), format_data)
       IN IF ~seg.lit /\ seg.s \notin DOMAIN format_data THEN Raised
          ELSE IF ~rest.ok THEN Raised
          ELSE Returned((IF seg.lit THEN seg.s ELSE PyFormat(format_data[seg.s]))
                          \o rest.val)

(***************************************************************************)
(* render_error (src/fhir_nudge/error_renderer.py)                         *)
(***************************************************************************)
CODE_ERROR_DEFS ==
  ("not_found" :>
     [template |-> << Lit("No "), Fld("resource_type"),
                      Lit(" resource was found with ID '"), Fld("resource_id"),
                      Lit("'.") >>,
      next_steps |-> << Lit("Try searching for the "), Fld("resource_type"),
                        Lit(" using /searchResource.") >>,
      required_fields |-> << "resource_type", "resource_id", "status_code" >>])
  @@ ("invalid_id" :>
     [template |-> << Lit("The ID '"), Fld("resource_id"),
                      Lit("' is not valid for resource type '"),
                      Fld("resource_type"), Lit("'.") >>,
      next_steps |-> << Lit("Check the format of '"), Fld("resource_id"),
                        Lit("' and try again. Expected format: "),
                        Fld("expected_id_format"),
                        Lit(". Consult the documentation if unsure.") >>,
      required_fields |-> << "resource_type", "resource_id", "status_code",
                             "expected_id_format" >>])
  @@ ("invalid_param" :>
     [template |-> << Lit("Parameter(s) provided are not supported for resource '"),
                      Fld("resource_type"), Lit("'. "), Fld("diagnostics") >>,
      next_steps |-> << Lit("Supported search parameters for '"),
                        Fld("resource_type"), Lit("': "), Fld("supported_params"),
                        Lit(". Correct any typos or use one of these parameters.") >>,
      required_fields |-> << "resource_type", "status_code", "supported_params" >>])
  @@ ("missing_param" :>
     [template |-> << Lit("No query parameters were provided for resource '"),
                      Fld("resource_type"),
                      Lit("'. At least one search parameter is required.") >>,
      next_steps |-> << Lit("Specify at least one valid search parameter for '"),
                        Fld("resource_type"),
                        Lit("'. See the API documentation for supported parameters.") >>,
      required_fields |-> << "resource_type", "status_code" >>])
  @@ ("invalid-type" :>
     [template |-> << Lit("Resource type '"), Fld("resource_type"),
                      Lit("' is not supported.") >>,
      next_steps |-> << Lit("Check the spelling or refer to the list of supported resource types.") >>,
      required_fields |-> << "resource_type", "status_code" >>])

\* `param.get(h, "") or ""` of one cell of the table.
Cell(s) == IF s = Null THEN "" ELSE s

RECURSIVE TableRows(_)
TableRows(schema) ==
  IF schema = << >> THEN ""
  ELSE LET param == Head(schema) IN
       NL \o "| " \o Cell(param.name) \o " | " \o Cell(param.type) \o " | "
          \o Cell(param.documentation) \o " | " \o Cell(param.example) \o " |"
          \o TableRows(Tail(schema))

\* Mutant: the table without its rows.
render_param_schema_markdown_no_rows(supported_param_schema) ==
  "| name | type | documentation | example |" \o NL \o "| --- | --- | --- | --- |"

render_param_schema_markdown(supported_param_schema) ==
  "| name | type | documentation | example |" \o NL \o "| --- | --- | --- | --- |"
    \o TableRows(supported_param_schema)

\* error_type.replace('_', ' ').capitalize() of the error types in use.
error_text(error_type) ==
  CASE error_type = "not_found" -> "Not found"
    [] error_type = "invalid_id" -> "Invalid id"
    [] error_type = "invalid_param" -> "Invalid param"
    [] error_type = "missing_param" -> "Missing param"
    [] error_type = "invalid-type" -> "Invalid-type"
    [] error_type = "unknown_error" -> "Unknown error"
    [] error_type = "not_a_real_error_type" -> "Not a real error type"

\* error_data.get(field) is None
IsNone(error_data, field) ==
  field \notin DOMAIN error_data \/ error_data[field].t = "null"

Range(seq) == { seq[i] : i \in DOMAIN seq }

\* format_data: the context with a placeholder for each required field
\* that is absent or None (lines 96-99).
PlaceholderFor(field) ==
  JStr(IF field = "diagnostics" THEN "" ELSE "<missing " \o field \o ">")

FormatData(error_data, required_fields) ==
  [k \in (DOMAIN error_data) \cup Range(required_fields) |->
     IF k \in Range(required_fields) /\ IsNone(error_data, k)
     THEN PlaceholderFor(k) ELSE error_data[k]]

\* One issue of error_data["issues"]: a dict with some of the four keys.
Issue(severity, code, diagnostics) ==
  [severity |-> JStr(severity), code |-> JStr(code), diagnostics |-> JStr(diagnostics)]

\* The issue dict with every schema field (lines 135-141).
PatchedIssue(issue) ==
  [severity |-> Get(issue, "severity", JStr("error")),
   code |-> Get(issue, "code", JStr("unknown")),
   diagnostics |-> Get(issue, "diagnostics", JStr("<missing diagnostics>")),
   details |-> Get(issue, "details", JStr("<missing details>"))]

\* The warning appended when required fields are missing (lines 143-150).
IncompleteContextIssue(missing) ==
  [severity |-> JStr("information"),
   code |-> JStr("incomplete-context"),
   diagnostics |-> JStr("Warning: Missing fields for this error: " \o ReprList(missing)),
   details |-> JStr("<missing details>")]

\* Optional[str] of the pydantic models (src/fhir_nudge/schemas.py): a str
\* or None passes validation, any other value raises ValidationError.
IsOptionalStr(v) == v.t \in {"str", "null"}

\* OperationOutcomeIssue(**issue): the validated issue as model_dump gives it.
OperationOutcomeIssue(issue) ==
  IF \A k \in DOMAIN issue : IsOptionalStr(issue[k])
  THEN Returned([k \in DOMAIN issue |-> PyStr(issue[k])])
  ELSE Raised

\* AIXErrorResponse(...): `error` and `friendly_message` are required str,
\* `status_code` a required int, `issues` a list of OperationOutcomeIssue.
AIXErrorResponse(error, friendly_message, next_steps, resource_type, resource_id, status_code, issues) ==
  IF /\ friendly_message.t = "str"
     /\ IsOptionalStr(next_steps)
     /\ IsOptionalStr(resource_type)
     /\ IsOptionalStr(resource_id)
     /\ status_code.t = "int"
     /\ \A i \in DOMAIN issues : OperationOutcomeIssue(issues[i]).ok
  THEN Returned(
         [error |-> error,
          friendly_message |-> friendly_message.v,
          next_steps |-> PyStr(next_steps),
          resource_type |-> PyStr(resource_type),
          resource_id |-> PyStr(resource_id),
          status_code |-> status_code.v,
          issues |-> [i \in DOMAIN issues |-> OperationOutcomeIssue(issues[i]).val]])
  ELSE Raised

\* render_error(error_type, error_data): Returned(envelope), or Raised when
\* the template names a field that is no key of the context (KeyError at
\* line 101) or the model rejects a value (ValidationError at line 153).
render_error(error_type, error_data) ==
  LET supported_param_schema == Get(error_data, "supported_param_schema", << >>)
      pretty_schema == IF supported_param_schema # << >>
                       THEN JStr(render_param_schema_markdown(supported_param_schema))
                       ELSE JNull
      known == error_type \in DOMAIN CODE_ERROR_DEFS
      required == IF known THEN CODE_ERROR_DEFS[error_type].required_fields ELSE << >>
      format_data == FormatData(error_data, required)
      message == IF known
                 THEN Format(CODE_ERROR_DEFS[error_type].template, format_data)
                 ELSE Returned("")
      steps == IF known
               THEN Format(CODE_ERROR_DEFS[error_type].next_steps, format_data)
               ELSE Raised
      friendly_message == IF known THEN JStr(message.val)
                          ELSE Get(error_data, "diagnostics", JStr("An error occurred."))
      next_steps == IF known
                    THEN IF pretty_schema.t = "str"
                         THEN IF steps.ok /\ steps.val # ""
                              THEN JStr(pretty_schema.v \o NL \o NL \o steps.val)
                              ELSE pretty_schema
                         ELSE IF steps.ok THEN JStr(steps.val) ELSE JNull
                    ELSE pretty_schema
      IsMissing(f) == IsNone(error_data, f)
      missing == SelectSeq(required, IsMissing)
      issues == Get(error_data, "issues", << >>)
      patched_issues ==
        [i \in DOMAIN issues |-> PatchedIssue(issues[i])]
          \o (IF missing # << >> THEN << IncompleteContextIssue(missing) >> ELSE << >>)
      status_code == IF IsNone(error_data, "status_code") THEN PyInt(-1)
                     ELSE error_data.status_code
  IN IF known /\ ~message.ok THEN Raised
     ELSE AIXErrorResponse(error_text(error_type), friendly_message, next_steps,
                           Get(error_data, "resource_type", JNull),
                           Get(error_data, "resource_id", JNull),
                           status_code, patched_issues)

\* What a route returns: (body, status).
ErrorResponse(envelope, http_status) ==
  [kind |-> "error", http_status |-> http_status, envelope |-> envelope]
NoResponse == [kind |-> "none"]

\* An exception that leaves the view function: Flask answers 500.
InternalServerError == [kind |-> "crash", http_status |-> 500]

\* jsonify(render_error(...).model_dump()), http_status outside any try.
Rendered(error_type, error_data, http_status) ==
  LET aix_error == render_error(error_type, error_data) IN
  IF aix_error.ok THEN ErrorResponse(aix_error.val, http_status)
  ELSE InternalServerError

(***************************************************************************)
(* Prevalidation                                                           *)
(***************************************************************************)
\* set(capability_idx.keys())
valid_types(capability_idx) == DOMAIN capability_idx

\* Mutant: the names of all descriptors, the `if p["name"]` filter dropped.
supported_params_unfiltered(supported_param_objs) ==
  { supported_param_objs[i].name : i \in DOMAIN supported_param_objs }

\* {p["name"] for p in supported_param_objs if p["name"]}
supported_params(supported_param_objs) ==
  { supported_param_objs[i].name : i \in
      { j \in DOMAIN supported_param_objs :
          supported_param_objs[j].name # Null /\ supported_param_objs[j].name # "" } }

\* param_counts: the keys given more than one value (lines 162-167).
param_counts(query_params) ==
  {k \in Keys(query_params) : query_params[k] > 1}

\* Mutant: the membership test inverted (`p in supported_params`).
unknown_params_inverted(query_params, supported) ==
  {k \in Keys(query_params) : k \in supported}

\* The pairs of different words of the model whose difflib ratio reaches
\* the cutoff 0.6: Patiant/Patient 0.86, nmae/name 0.75.
ClosePairs == { << "Patiant", "Patient" >>, << "nmae", "name" >> }

\* The pairs of words the matcher reports as close: ClosePairs for difflib
\* as it is, any other set when the matcher's answer is varied.
VARIABLE matcher

\* Mutant: a key with a close match among the supported names is let through.
unknown_params_unless_close(query_params, supported) ==
  {k \in Keys(query_params) :
     k \notin supported /\ ~(\E p \in supported : << k, p >> \in matcher)}

\* unknown_params (line 187).
unknown_params(query_params, supported) ==
  {k \in Keys(query_params) : k \notin supported}

\* Python's order of the str values of the model (sorted() compares code
\* points: upper case before '_' before lower case).
StrOrder == << "", "Basic", "Patiant", "Patient", "_id", "name", "nmae" >>

\* sorted(strs); also the order in which the keys of a request are met.
Sorted(strs) == LET In(s) == s \in strs IN SelectSeq(StrOrder, In)

\* sep.join(strs)
RECURSIVE Join(_, _)
Join(strs, sep) ==
  IF strs = << >> THEN ""
  ELSE Head(strs) \o (IF Len(strs) > 1 THEN sep ELSE "") \o Join(Tail(strs), sep)

\* difflib.get_close_matches(word, possibilities, n): here at most one
\* possibility is close to a word.
get_close_matches(word, possibilities, n) ==
  LET IsClose(p) == p \in possibilities /\ (p = word \/ << word, p >> \in matcher)
      close == SelectSeq(StrOrder, IsClose)
  IN IF Len(close) > n THEN SubSeq(close, 1, n) ELSE close

\* The characters of a resource id as one str.
RECURSIVE IdText(_)
IdText(resource_id) ==
  IF resource_id = << >> THEN "" ELSE Head(resource_id) \o IdText(Tail(resource_id))

\* [p["name"] for p in supported_param_objs if p["name"]]
RECURSIVE SupportedNames(_)
SupportedNames(supported_param_objs) ==
  IF supported_param_objs = << >> THEN << >>
  ELSE LET name == Head(supported_param_objs).name IN
       (IF name # Null /\ name # "" THEN << name >> ELSE << >>)
         \o SupportedNames(Tail(supported_param_objs))

StrList(strs) == JArr([i \in DOMAIN strs |-> JStr(strs[i])])

\* The diagnostics of an unsupported resource type (lines 138-141, 464-467).
InvalidTypeDiagnostics(resource, types) ==
  LET close == get_close_matches(resource, types, 3) IN
  "Resource type '" \o resource \o "' is not supported. Supported types: "
    \o ReprList(Sorted(types)) \o "."
    \o (IF close # << >> THEN " Did you mean: " \o Join(close, ", ") \o "?" ELSE "")

\* The invalid-type response of the search route (lines 137-156).
InvalidTypeResponse(resource, types) ==
  LET diagnostics == InvalidTypeDiagnostics(resource, types) IN
  Rendered("invalid-type",
    [resource_type |-> JStr(resource), status_code |-> PyInt(BadRequest),
     diagnostics |-> JStr(diagnostics),
     issues |-> << Issue("error", "invalid-type", diagnostics) >>],
    BadRequest)

\* The invalid-type response of the read route (lines 463-480).
ReadInvalidTypeResponse(resource, resource_id, types) ==
  LET diagnostics == InvalidTypeDiagnostics(resource, types) IN
  Rendered("invalid-type",
    [resource_type |-> JStr(resource), resource_id |-> JStr(IdText(resource_id)),
     status_code |-> PyInt(BadRequest),
     diagnostics |-> JStr(diagnostics),
     issues |-> << Issue("error", "invalid-type", diagnostics) >>],
    BadRequest)

\* The invalid-id response of the read route (lines 484-498).
InvalidIdResponse(resource, resource_id) ==
  LET diagnostics == "The ID '" \o IdText(resource_id)
                       \o "' is not valid for resource type '" \o resource
                       \o "'. Expected format: [A-Za-z0-9-\\.]{1,64}."
  IN Rendered("invalid_id",
       [resource_type |-> JStr(resource), resource_id |-> JStr(IdText(resource_id)),
        status_code |-> PyInt(BadRequest),
        expected_id_format |-> JStr("[A-Za-z0-9-\\.]{{1,64}}"),
        issues |-> << Issue("error", "invalid-id", diagnostics) >>],
       BadRequest)

\* "'k' (v times)" of each duplicated key (line 169).
RECURSIVE ParamList(_, _)
ParamList(keys, query_params) ==
  IF keys = << >> THEN << >>
  ELSE << "'" \o Head(keys) \o "' (" \o ToString(query_params[Head(keys)]) \o " times)" >>
         \o ParamList(Tail(keys), query_params)

\* "'p' -> 'close'" of each unknown key with a close match (lines 191-194).
RECURSIVE Suggestions(_, _)
Suggestions(unknown, supported) ==
  IF unknown = << >> THEN << >>
  ELSE LET close == get_close_matches(Head(unknown), supported, 1) IN
       (IF close # << >> THEN << "'" \o Head(unknown) \o "' -> '" \o close[1] \o "'" >>
        ELSE << >>)
         \o Suggestions(Tail(unknown), supported)

\* The diagnostics of the three parameter checks (lines 170, 195-197, 215).
ParamDiagnostics(code, resource, supported_param_objs, query_params) ==
  LET supported == Range(SupportedNames(supported_param_objs))
      duplicated == Sorted({k \in DOMAIN query_params : query_params[k] > 1})
      unknown == Sorted({k \in DOMAIN query_params :
                           query_params[k] > 0 /\ k \notin supported})
      suggestions == Suggestions(unknown, supported)
  IN CASE code = "duplicate-param" ->
            "Duplicate/conflicting parameter(s) detected: "
              \o Join(ParamList(duplicated, query_params), ", ")
              \o ". Each parameter should appear only once per request."
       [] code = "invalid-param" ->
            "Unsupported parameter(s) for resource '" \o resource \o "': "
              \o ReprList(unknown) \o "."
              \o (IF suggestions # << >>
                  THEN " Did you mean: " \o Join(suggestions, ", ") ELSE "")
       [] code = "missing-param" ->
            "No query parameters provided. Please specify at least one search parameter for resource '"
              \o resource \o "'."

\* The response of a parameter check that failed with issue code `code`
\* (lines 171-185, 199-212, 216-228): the duplicate check gives
\* supported_params as a list, the unknown check as a joined str and the
\* empty-query guard not at all.
ParamErrorResponse(error_type, code, resource, supported_param_objs, query_params) ==
  LET diagnostics == ParamDiagnostics(code, resource, supported_param_objs, query_params)
      names == SupportedNames(supported_param_objs)
      base == [resource_type |-> JStr(resource), status_code |-> PyInt(BadRequest),
               supported_param_schema |-> supported_param_objs,
               diagnostics |-> JStr(diagnostics),
               issues |-> << Issue("error", code, diagnostics) >>]
      error_data ==
        CASE code = "duplicate-param" -> ("supported_params" :> StrList(names)) @@ base
          [] code = "invalid-param" ->
               ("supported_params" :> JStr(Join(Sorted(Range(names)), ", "))) @@ base
          [] code = "missing-param" -> base
  IN Rendered(error_type, error_data, BadRequest)

Invalid(response) == [is_valid |-> FALSE, error_response |-> response]
Valid == [is_valid |-> TRUE, error_response |-> NoResponse]

\* Mutant: the empty-query guard (lines 213-228) left out.
prevalidate_search_resource_no_empty_guard(capability_idx, resource, query_params) ==
  IF resource \notin valid_types(capability_idx)
  THEN Invalid(InvalidTypeResponse(resource, valid_types(capability_idx)))
  ELSE LET supported_param_objs == capability_idx[resource] IN
       IF param_counts(query_params) # {}
       THEN Invalid(ParamErrorResponse("invalid_param", "duplicate-param",
                                       resource, supported_param_objs, query_params))
       ELSE IF unknown_params(query_params, supported_params(supported_param_objs)) # {}
       THEN Invalid(ParamErrorResponse("invalid_param", "invalid-param",
                                       resource, supported_param_objs, query_params))
       ELSE Valid

\* Mutant: the unknown-parameter check made before the duplicate check.
prevalidate_search_resource_unknown_first(capability_idx, resource, query_params) ==
  IF resource \notin valid_types(capability_idx)
  THEN Invalid(InvalidTypeResponse(resource, valid_types(capability_idx)))
  ELSE LET supported_param_objs == capability_idx[resource] IN
       IF unknown_params(query_params, supported_params(supported_param_objs)) # {}
       THEN Invalid(ParamErrorResponse("invalid_param", "invalid-param",
                                       resource, supported_param_objs, query_params))
       ELSE IF param_counts(query_params) # {}
       THEN Invalid(ParamErrorResponse("invalid_param", "duplicate-param",
                                       resource, supported_param_objs, query_params))
       ELSE IF Keys(query_params) = {}
       THEN Invalid(ParamErrorResponse("missing_param", "missing-param",
                                       resource, supported_param_objs, query_params))
       ELSE Valid

\* Mutant: the empty-query guard made first, before the type check.
prevalidate_search_resource_empty_first(capability_idx, resource, query_params) ==
  IF Keys(query_params) = {}
  THEN Invalid(ParamErrorResponse("missing_param", "missing-param",
                                  resource, Get(capability_idx, resource, << >>), query_params))
  ELSE IF resource \notin valid_types(capability_idx)
  THEN Invalid(InvalidTypeResponse(resource, valid_types(capability_idx)))
  ELSE LET supported_param_objs == capability_idx[resource] IN
       IF param_counts(query_params) # {}
       THEN Invalid(ParamErrorResponse("invalid_param", "duplicate-param",
                                       resource, supported_param_objs, query_params))
       ELSE IF unknown_params(query_params, supported_params(supported_param_objs)) # {}
       THEN Invalid(ParamErrorResponse("invalid_param", "invalid-param",
                                       resource, supported_param_objs, query_params))
       ELSE Valid

\* _prevalidate_search_resource, given the index get_capability_index()
\* returned: (is_valid, error_response).
prevalidate_search_resource(capability_idx, resource, query_params) ==
  IF resource \notin valid_types(capability_idx)
  THEN Invalid(InvalidTypeResponse(resource, valid_types(capability_idx)))
  ELSE LET supported_param_objs == capability_idx[resource] IN
       IF param_counts(query_params) # {}
       THEN Invalid(ParamErrorResponse("invalid_param", "duplicate-param",
                                       resource, supported_param_objs, query_params))
       ELSE IF unknown_params(query_params, supported_params(supported_param_objs)) # {}
       THEN Invalid(ParamErrorResponse("invalid_param", "invalid-param",
                                       resource, supported_param_objs, query_params))
       ELSE IF Keys(query_params) = {}
       THEN Invalid(ParamErrorResponse("missing_param", "missing-param",
                                       resource, supported_param_objs, query_params))
       ELSE Valid

\* Mutant: the id check made before the type check.
prevalidate_read_resource_id_first(capability_idx, resource, resource_id) ==
  IF ~FHIR_ID_PATTERN_match(resource_id)
  THEN Invalid(InvalidIdResponse(resource, resource_id))
  ELSE IF resource \notin valid_types(capability_idx)
  THEN Invalid(ReadInvalidTypeResponse(resource, resource_id, valid_types(capability_idx)))
  ELSE Valid

\* The checks of read_resource before the upstream GET (lines 461-498).
prevalidate_read_resource(capability_idx, resource, resource_id) ==
  IF resource \notin valid_types(capability_idx)
  THEN Invalid(ReadInvalidTypeResponse(resource, resource_id, valid_types(capability_idx)))
  ELSE IF ~FHIR_ID_PATTERN_match(resource_id)
  THEN Invalid(InvalidIdResponse(resource, resource_id))
  ELSE Valid

\* The prevalidation of a request of either route.
Prevalidate(capability_idx, request) ==
  IF request.route = "read"
  THEN prevalidate_read_resource(capability_idx, request.resource, request.resource_id)
  ELSE prevalidate_search_resource(capability_idx, request.resource, request.args)

(***************************************************************************)
(* Upstream responses to a forwarded request.                              *)
(***************************************************************************)
\* The keys of the JSON objects of the model, in the order they are written.
JsonKeys ==
  << "resourceType", "id", "rest", "resource", "type", "searchParam", "name",
     "documentation", "issue", "severity", "code", "diagnostics", "details",
     "text", "entry", "fullUrl" >>

\* The JSON text of a value.
RECURSIVE Dumps(_), DumpsItems(_), DumpsMembers(_, _)
Dumps(j) ==
  CASE j.t = "null" -> "null"
    [] j.t = "str" -> "\"" \o j.v \o "\""
    [] j.t = "int" -> ToString(j.v)
    [] j.t = "arr" -> "[" \o DumpsItems(j.v) \o "]"
    [] j.t = "obj" ->
         LET In(k) == k \in DOMAIN j.v IN
         "{" \o DumpsMembers(SelectSeq(JsonKeys, In), j.v) \o "}"
DumpsItems(items) ==
  IF items = << >> THEN ""
  ELSE Dumps(Head(items)) \o (IF Len(items) > 1 THEN ", " ELSE "")
         \o DumpsItems(Tail(items))
DumpsMembers(keys, fields) ==
  IF keys = << >> THEN ""
  ELSE "\"" \o Head(keys) \o "\": " \o Dumps(fields[Head(keys)])
         \o (IF Len(keys) > 1 THEN ", " ELSE "") \o DumpsMembers(Tail(keys), fields)

\* A response body: whether response.json() parses it, the parsed value,
\* and response.text.
TextBody == [kind |-> "text", data |-> JNull, text |-> "Internal Server Error"]
JsonBody(data) == [kind |-> "json", data |-> data, text |-> Dumps(data)]

\* An OperationOutcome issue with severity and code, and one that also
\* has diagnostics.
UpstreamIssue(severity, code) == JObj([severity |-> JStr(severity), code |-> JStr(code)])
DiagnosedIssue(severity, code, diagnostics) ==
  JObj([severity |-> JStr(severity), code |-> JStr(code),
        diagnostics |-> JStr(diagnostics)])
OperationOutcome(issues) ==
  JObj([resourceType |-> JStr("OperationOutcome"), issue |-> JArr(issues)])

UpstreamBodies ==
  << TextBody,
     JsonBody(OperationOutcome(<<
       DiagnosedIssue("error", "not-found", "Resource Patient/a is not known") >>)),
     JsonBody(OperationOutcome(<<
       JObj([severity |-> JStr("error"), code |-> JStr("invalid"),
             diagnostics |-> JStr("Invalid value 'abc' for parameter 'gender'."),
             details |-> JObj([text |-> JStr("Parameter 'gender' must be a code.")])]) >>)),
     JsonBody(OperationOutcome(<<
       DiagnosedIssue("error", "processing", "Unknown parameter 'foo'"),
       UpstreamIssue("warning", "value") >>)),
     JsonBody(OperationOutcome(<<
       JObj([severity |-> JStr("error"), code |-> JStr("structure"),
             diagnostics |-> JNull, details |-> JStr("")]) >>)),
     JsonBody(OperationOutcome(<<
       DiagnosedIssue("error", "business-rule", "Rule A failed"),
       DiagnosedIssue("warning", "informational", "Rule B failed") >>)),
     JsonBody(OperationOutcome(<<
       DiagnosedIssue("information", "informational", "Processed with notes") >>)),
     JsonBody(JObj([resourceType |-> JStr("Bundle")])),
     JsonBody(JObj([resourceType |-> JStr("Bundle"), entry |-> JArr(<< >>)])),
     JsonBody(JObj([resourceType |-> JStr("Bundle"),
                    entry |-> JArr(<< JObj([fullUrl |-> JStr("Patient/a")]) >>)])),
     JsonBody(JObj([resourceType |-> JStr("Patient"), id |-> JStr("a")])),
     JsonBody(JArr(<< >>)),
     JsonBody(OperationOutcome(<<
       DiagnosedIssue("error", "invalid", "Invalid value"), JStr("junk") >>)),
     JsonBody(OperationOutcome(<<
       JObj([severity |-> JStr("error"), code |-> JStr("invalid"),
             diagnostics |-> JArr(<< JStr("Invalid value") >>)]) >>)),
     JsonBody(OperationOutcome(<<
       DiagnosedIssue("error", "invalid", "Invalid value for 'gender'."),
       DiagnosedIssue("error", "not-supported", "Unsupported parameter 'foo'.") >>)),
     JsonBody(OperationOutcome(<< >>)),
     JsonBody(OperationOutcome(<< UpstreamIssue("warning", "required") >>)),
     JsonBody(JObj([resourceType |-> JStr("OperationOutcome"), issue |-> JNull])),
     JsonBody(OperationOutcome(<<
       DiagnosedIssue("error", "not-supported", "Unsupported parameter 'foo'."),
       DiagnosedIssue("error", "unknown", "Search failed") >>)),
     JsonBody(OperationOutcome(<<
       DiagnosedIssue("error", "not-found", "Resource Patient/a is not known"),
       JStr("junk") >>)),
     JsonBody(OperationOutcome(<<
       JObj([severity |-> PyInt(1), code |-> JStr("invalid"),
             diagnostics |-> JStr("Bad value")]) >>)),
     JsonBody(OperationOutcome(<<
       DiagnosedIssue("error", "processing", "Unknown parameter 'foo'") >>)) >>

UpstreamStatuses == {200, 304, 400, 404, 405, 422, 500}

\* Every upstream response: a status with a body.
UpstreamResponses ==
  { << status, i >> : status \in UpstreamStatuses, i \in DOMAIN UpstreamBodies }

\* The upstream responses the threads of the system are given: a payload,
\* an empty Bundle, a not-found outcome and a plain-text error.
SampleResponses ==
  { << 200, 11 >>, << 200, 9 >>, << 404, 2 >>, << 500, 1 >> }

\* Python truthiness of a JSON value.
Truthy(j) ==
  CASE j.t = "null" -> FALSE
    [] j.t = "str" -> j.v # ""
    [] j.t = "arr" -> j.v # << >>
    [] j.t = "obj" -> DOMAIN j.v # {}

IsStr(j, s) == j.t = "str" /\ j.v = s

\* issue.get("code"), issue.get("severity")
IssueCode(issue) == PyStr(Get(issue.v, "code", JNull))
IssueSeverity(issue) == PyStr(Get(issue.v, "severity", JNull))

AllObjects(items) == \A i \in DOMAIN items : items[i].t = "obj"

IsInvalidParamIssue(issue) == IssueCode(issue) \in {"invalid", "value"}
IsUnknownParamIssue(issue) == IssueCode(issue) \in {"not-supported", "unknown", "processing"}
IsMalformedIssue(issue) ==
  IssueCode(issue) \in {"structure", "required", "invalid"} /\ IssueSeverity(issue) = "error"
IsActionableIssue(issue) == IssueSeverity(issue) \in {"error", "warning"}

\* `details`: the text of a details object, else the details value; a
\* falsy result becomes the placeholder (lines 260, 265).
CopiedDetails(issue) ==
  LET raw == Get(issue.v, "details", JNull)
      details == IF raw.t = "obj" THEN Get(raw.v, "text", JNull) ELSE raw
  IN IF Truthy(details) THEN details ELSE JStr("<missing details>")

\* The issue a rule copies into error_data["issues"] (lines 259-266), with
\* the rule's defaults for absent diagnostics and code.
CopiedIssue(issue, default_diagnostics, default_code) ==
  [severity |-> Get(issue.v, "severity", JStr("error")),
   code |-> Get(issue.v, "code", JStr(default_code)),
   diagnostics |-> Get(issue.v, "diagnostics", JStr(default_diagnostics)),
   details |-> CopiedDetails(issue)]

CopiedIssues(issues, default_diagnostics, default_code) ==
  [i \in DOMAIN issues |-> CopiedIssue(issues[i], default_diagnostics, default_code)]

\* re.search(r"parameter ['\"]?([\w-]+)['\"]?", diagnostics) on the
\* diagnostics of the model: the name after the word "parameter", if any.
ParameterNamed(diagnostics) ==
  CASE diagnostics = "Unknown parameter 'foo'" -> << "foo" >>
    [] diagnostics = "Unsupported parameter 'foo'." -> << "foo" >>
    [] diagnostics = "Invalid value 'abc' for parameter 'gender'." -> << "gender" >>
    [] OTHER -> << >>

\* unsupported_params of rule 2 (lines 286-301): Raised when diagnostics
\* are truthy and no str (re.search raises TypeError).
RECURSIVE UnsupportedParams(_)
UnsupportedParams(issues) ==
  IF issues = << >> THEN Returned(<< >>)
  ELSE LET diagnostics == Head(issues).diagnostics
           rest == UnsupportedParams(Tail(issues))
       IN IF Truthy(diagnostics) /\ diagnostics.t # "str" THEN Raised
          ELSE IF ~rest.ok THEN Raised
          ELSE Returned((IF Truthy(diagnostics) THEN ParameterNamed(diagnostics.v)
                         ELSE << >>) \o rest.val)

\* error_data of classifier rules 1-4 (lines 267-275 and the like).
RuleErrorData(resource, status, issues, index) ==
  LET supported_param_objs == Get(index, resource, << >>) IN
  [resource_type |-> JStr(resource),
   status_code |-> PyInt(status),
   issues |-> issues,
   supported_param_schema |-> supported_param_objs,
   supported_params |-> StrList(SupportedNames(supported_param_objs)),
   diagnostics |-> issues[1].diagnostics]

\* Mutant: a rule that renders outside the try block, so that an exception
\* of render_error leaves the view function.
RuleResponse_uncaught(resource, status, issues, index) ==
  Rendered("invalid_param", RuleErrorData(resource, status, issues, index), status)

\* The response of a rule: render_error("invalid_param", ...) with the
\* upstream status; NoResponse when rendering raises inside the try block.
RuleResponse(resource, status, issues, index) ==
  LET aix_error == render_error("invalid_param",
                                RuleErrorData(resource, status, issues, index))
  IN IF aix_error.ok THEN ErrorResponse(aix_error.val, status) ELSE NoResponse

\* Rule 2 also collects unsupported_params before it renders.
UnknownParamResponse(resource, status, issues, index) ==
  LET unsupported_params == UnsupportedParams(issues) IN
  IF ~unsupported_params.ok THEN NoResponse
  ELSE LET aix_error ==
             render_error("invalid_param",
               ("unsupported_params" :> StrList(unsupported_params.val))
                 @@ RuleErrorData(resource, status, issues, index))
       IN IF aix_error.ok THEN ErrorResponse(aix_error.val, status) ELSE NoResponse

\* Mutant: the unknown-parameter rule tried before the invalid-value rule.
enrich_rules_unknown_first(resource, status, body, index) ==
  IF body.kind # "json" THEN NoResponse
  ELSE LET error_body == body.data IN
  IF ~(error_body.t = "obj"
       /\ IsStr(Get(error_body.v, "resourceType", JNull), "OperationOutcome")
       /\ Truthy(Get(error_body.v, "issue", JNull)))
  THEN NoResponse
  ELSE LET issue == Items(error_body.v.issue) IN
  IF ~AllObjects(issue) THEN NoResponse
  ELSE LET invalid_param_issues == SelectSeq(issue, IsInvalidParamIssue)
           unknown_param_issues == SelectSeq(issue, IsUnknownParamIssue)
           malformed_issues == SelectSeq(issue, IsMalformedIssue)
           actionable_issues == SelectSeq(issue, IsActionableIssue)
       IN
       IF unknown_param_issues # << >>
       THEN UnknownParamResponse(resource, status,
              CopiedIssues(unknown_param_issues, "Unsupported or unknown parameter.",
                           "invalid-param"),
              index)
       ELSE IF invalid_param_issues # << >>
       THEN RuleResponse(resource, status,
              CopiedIssues(invalid_param_issues, "Invalid parameter value.", "invalid"),
              index)
       ELSE IF malformed_issues # << >>
       THEN RuleResponse(resource, status,
              CopiedIssues(malformed_issues, "Malformed request.", "invalid"), index)
       ELSE IF Len(actionable_issues) > 1
       THEN RuleResponse(resource, status,
              CopiedIssues(actionable_issues, "Issue encountered.", "unknown"), index)
       ELSE NoResponse

\* The try block of _enrich_search_resource_error (lines 244-371): the
\* response a rule returns, or NoResponse when none matched or the block
\* raised.
enrich_rules(resource, status, body, index) ==
  IF body.kind # "json" THEN NoResponse
  ELSE LET error_body == body.data IN
  IF ~(error_body.t = "obj"
       /\ IsStr(Get(error_body.v, "resourceType", JNull), "OperationOutcome")
       /\ Truthy(Get(error_body.v, "issue", JNull)))
  THEN NoResponse
  ELSE LET issue == Items(error_body.v.issue) IN
  IF ~AllObjects(issue) THEN NoResponse
  ELSE LET invalid_param_issues == SelectSeq(issue, IsInvalidParamIssue)
           unknown_param_issues == SelectSeq(issue, IsUnknownParamIssue)
           malformed_issues == SelectSeq(issue, IsMalformedIssue)
           actionable_issues == SelectSeq(issue, IsActionableIssue)
       IN
       IF invalid_param_issues # << >>
       THEN RuleResponse(resource, status,
              CopiedIssues(invalid_param_issues, "Invalid parameter value.", "invalid"),
              index)
       ELSE IF unknown_param_issues # << >>
       THEN UnknownParamResponse(resource, status,
              CopiedIssues(unknown_param_issues, "Unsupported or unknown parameter.",
                           "invalid-param"),
              index)
       ELSE IF malformed_issues # << >>
       THEN RuleResponse(resource, status,
              CopiedIssues(malformed_issues, "Malformed request.", "invalid"), index)
       ELSE IF Len(actionable_issues) > 1
       THEN RuleResponse(resource, status,
              CopiedIssues(actionable_issues, "Issue encountered.", "unknown"), index)
       ELSE NoResponse

\* Mutant: the generic diagnostics without the text of the body.
GenericDiagnostics_no_text(status, body) ==
  "FHIR server returned status " \o ToString(status)

\* f"FHIR server returned status {status_code}: {text}"
GenericDiagnostics(status, body) ==
  "FHIR server returned status " \o ToString(status) \o ": " \o body.text

\* The truthy diagnostics of the issues, in order; Raised when an item is
\* no object or truthy diagnostics are no str (str.join raises).
RECURSIVE IssueDiagnostics(_)
IssueDiagnostics(items) ==
  IF items = << >> THEN Returned(<< >>)
  ELSE IF Head(items).t # "obj" THEN Raised
  ELSE LET diagnostics == Get(Head(items).v, "diagnostics", JNull)
           rest == IssueDiagnostics(Tail(items))
       IN IF Truthy(diagnostics) /\ diagnostics.t # "str" THEN Raised
          ELSE IF ~rest.ok THEN Raised
          ELSE Returned((IF Truthy(diagnostics) THEN << diagnostics.v >> ELSE << >>)
                          \o rest.val)

\* Mutant: the 405/422 block never reads the diagnostics of the outcome.
MethodOrEntityDiagnostics_generic(status, body) == GenericDiagnostics(status, body)

\* `diagnostics` of the 405/422 block (lines 374-385): the diagnostics of
\* the outcome's issues joined by "; ", else the generic text.
MethodOrEntityDiagnostics(status, body) ==
  LET error_body == body.data
      is_outcome == /\ body.kind = "json"
                    /\ error_body.t = "obj"
                    /\ IsStr(Get(error_body.v, "resourceType", JNull), "OperationOutcome")
      issue == Get(error_body.v, "issue", JArr(<< >>))
      found == IF Iterable(issue) THEN IssueDiagnostics(Items(issue)) ELSE Raised
      joined == IF is_outcome /\ found.ok THEN Join(found.val, "; ") ELSE ""
  IN IF joined # "" THEN joined ELSE GenericDiagnostics(status, body)

\* Mutant: the 405/422 block with `diagnostics` left out of the context,
\* so that the template's {diagnostics} has no value.
MethodOrEntityResponse_no_diagnostics(resource, status, body, index) ==
  LET diagnostics == MethodOrEntityDiagnostics(status, body) IN
  Rendered("invalid_param",
    [resource_type |-> JStr(resource),
     status_code |-> PyInt(status),
     issues |-> << [severity |-> JStr("error"),
                    code |-> JStr(IF status = 405 THEN "method-not-allowed"
                                  ELSE "unprocessable-entity"),
                    diagnostics |-> JStr(diagnostics),
                    details |-> JStr("Request method not allowed or entity unprocessable. See diagnostics.")] >>,
     supported_param_schema |-> Get(index, resource, << >>)],
    status)

\* The 405/422 block (lines 373-400).
MethodOrEntityResponse(resource, status, body, index) ==
  LET diagnostics == MethodOrEntityDiagnostics(status, body) IN
  Rendered("invalid_param",
    [resource_type |-> JStr(resource),
     status_code |-> PyInt(status),
     issues |-> << [severity |-> JStr("error"),
                    code |-> JStr(IF status = 405 THEN "method-not-allowed"
                                  ELSE "unprocessable-entity"),
                    diagnostics |-> JStr(diagnostics),
                    details |-> JStr("Request method not allowed or entity unprocessable. See diagnostics.")] >>,
     diagnostics |-> JStr(diagnostics),
     supported_param_schema |-> Get(index, resource, << >>)],
    status)

\* Mutant: the generic fallback with status_code left out of the context.
GenericSearchResponse_no_status(resource, status, body, index) ==
  LET diagnostics == GenericDiagnostics(status, body) IN
  Rendered("unknown_error",
    [resource_type |-> JStr(resource),
     issues |-> << Issue("error", "unknown", diagnostics) >>,
     diagnostics |-> JStr(diagnostics),
     supported_param_schema |-> Get(index, resource, << >>)],
    status)

\* The generic fallback of the search route (lines 402-415).
GenericSearchResponse(resource, status, body, index) ==
  LET diagnostics == GenericDiagnostics(status, body) IN
  Rendered("unknown_error",
    [resource_type |-> JStr(resource),
     status_code |-> PyInt(status),
     issues |-> << Issue("error", "unknown", diagnostics) >>,
     diagnostics |-> JStr(diagnostics),
     supported_param_schema |-> Get(index, resource, << >>)],
    status)

\* Mutant: the status rule for 405 and 422 tried before the issue rules.
enrich_search_resource_error_status_first(resource, status, body, index) ==
  IF status \in {405, 422}
  THEN MethodOrEntityResponse(resource, status, body, index)
  ELSE LET by_rule == enrich_rules(resource, status, body, index) IN
       IF by_rule.kind # "none" THEN by_rule
       ELSE GenericSearchResponse(resource, status, body, index)

\* _enrich_search_resource_error: the rules, then 405/422, then the
\* generic fallback.
enrich_search_resource_error(resource, status, body, index) ==
  LET by_rule == enrich_rules(resource, status, body, index) IN
  IF by_rule.kind # "none" THEN by_rule
  ELSE IF status \in {405, 422}
  THEN MethodOrEntityResponse(resource, status, body, index)
  ELSE GenericSearchResponse(resource, status, body, index)

\* The body is a Bundle without entries (lines 563-573).
IsEmptyBundle(body) ==
  /\ body.kind = "json"
  /\ body.data.t = "obj"
  /\ IsStr(Get(body.data.v, "resourceType", JNull), "Bundle")
  /\ ("entry" \notin DOMAIN body.data.v \/ ~Truthy(body.data.v.entry))

\* The value the model gives each query key (the checks read keys only).
ArgValue(key) ==
  CASE key = "name" -> "John"
    [] key = "_id" -> "123"
    [] OTHER -> "x"

\* f"{v}" of a descriptor value: None is printed as "None".
FString(v) == IF v = Null THEN "None" ELSE v

\* "\n".join(f"  {k}: {v}" for k, v in query_params.items()) (line 433).
RECURSIVE QueryLines(_)
QueryLines(keys) ==
  IF keys = << >> THEN ""
  ELSE "  " \o Head(keys) \o ": " \o ArgValue(Head(keys))
         \o (IF Len(keys) > 1 THEN NL ELSE "") \o QueryLines(Tail(keys))

\* The rows of the table of lines 444-446, each ended by a newline.
RECURSIVE BundleTableRows(_)
BundleTableRows(supported_param_objs) ==
  IF supported_param_objs = << >> THEN ""
  ELSE LET param == Head(supported_param_objs) IN
       "| " \o FString(param.name) \o " | " \o FString(param.type) \o " | "
         \o FString(param.documentation) \o " | " \o FString(param.example) \o " |" \o NL
         \o BundleTableRows(Tail(supported_param_objs))

\* Mutant: the guidance without the lines that echo the query.
empty_search_bundle_response_no_echo(resource, query_params, index) ==
  LET supported_param_objs == Get(index, resource, << >>) IN
  [kind |-> "empty", http_status |-> 200,
   payload |->
     [resourceType |-> "Bundle",
      entry |-> << >>,
      friendly_message |-> "No " \o resource \o " resources matched your search criteria.",
      next_steps |->
        "Double-check the search parameters you used." \o NL \o NL
          \o "If this was not your intent, try adjusting the search parameters. "
          \o "See below for supported parameters."
          \o (IF supported_param_objs # << >>
              THEN NL \o NL \o "Supported search parameters for '" \o resource \o "':" \o NL
                     \o "| name | type | documentation | example |" \o NL
                     \o "| --- | --- | --- | --- |" \o NL
                     \o BundleTableRows(supported_param_objs)
              ELSE "")]]

\* _empty_search_bundle_response (lines 417-456): jsonify(bundle), 200.
empty_search_bundle_response(resource, query_params, index) ==
  LET supported_param_objs == Get(index, resource, << >>) IN
  [kind |-> "empty", http_status |-> 200,
   payload |->
     [resourceType |-> "Bundle",
      entry |-> << >>,
      friendly_message |-> "No " \o resource \o " resources matched your search criteria.",
      next_steps |->
        "Double-check the search parameters you used:" \o NL \o NL
          \o QueryLines(Sorted(Keys(query_params))) \o NL \o NL
          \o "If this was not your intent, try adjusting the search parameters. "
          \o "See below for supported parameters."
          \o (IF supported_param_objs # << >>
              THEN NL \o NL \o "Supported search parameters for '" \o resource \o "':" \o NL
                     \o "| name | type | documentation | example |" \o NL
                     \o "| --- | --- | --- | --- |" \o NL
                     \o BundleTableRows(supported_param_objs)
              ELSE "")]]

(***************************************************************************)
(* Response headers.                                                       *)
(***************************************************************************)
UpperLetters == "ABCDEFGHIJKLMNOPQRSTUVWXYZ"
LowerLetters == "abcdefghijklmnopqrstuvwxyz"

\* str.lower() of one character.
LowerChar(c) ==
  IF \E i \in 1..Len(UpperLetters) : SubSeq(UpperLetters, i, i) = c
  THEN LET i == CHOOSE i \in 1..Len(UpperLetters) : SubSeq(UpperLetters, i, i) = c
       IN SubSeq(LowerLetters, i, i)
  ELSE c

\* str.lower()
RECURSIVE Lower(_)
Lower(str) ==
  IF str = "" THEN ""
  ELSE LowerChar(SubSeq(str, 1, 1)) \o Lower(SubSeq(str, 2, Len(str)))

\* The set `excluded` of filter_headers (lines 99-102).
excluded ==
  {"transfer-encoding", "content-encoding", "content-length", "connection",
   "keep-alive", "proxy-authenticate", "proxy-authorization", "te", "trailer", "upgrade"}

\* Mutant: the names compared as they are spelled.
filter_headers_case_sensitive(headers) ==
  [k \in {k \in DOMAIN headers : k \notin excluded} |-> headers[k]]

\* filter_headers (lines 96-104)
filter_headers(headers) ==
  [k \in {k \in DOMAIN headers : Lower(k) \notin excluded} |-> headers[k]]

\* A response without headers.
NoHeaders == [k \in {} |-> ""]

\* The header mappings an upstream response is given: the ten hop-by-hop
\* names in several spellings among end-to-end headers.
UpstreamHeaders ==
  { NoHeaders,
    ("Content-Type" :> "application/fhir+json"),
    ("Content-Type" :> "application/fhir+json") @@ ("Content-Length" :> "42")
      @@ ("ETag" :> "W/1") @@ ("Connection" :> "keep-alive") @@ ("Keep-Alive" :> "timeout=5"),
    ("content-type" :> "application/json") @@ ("TRANSFER-ENCODING" :> "chunked")
      @@ ("Content-Encoding" :> "gzip") @@ ("te" :> "trailers") @@ ("Trailer" :> "Expires")
      @@ ("X-Request-Id" :> "r1"),
    ("Upgrade" :> "h2c") @@ ("Proxy-Authenticate" :> "Basic")
      @@ ("proxy-authorization" :> "Basic eA==") @@ ("Last-Modified" :> "today")
      @@ ("Tea" :> "green") }

\* The headers the upstream responses of the system carry.
SampleHeaders ==
  { ("Content-Type" :> "application/fhir+json") @@ ("Content-Length" :> "42") }

\* The upstream payload returned as it came.
PassThrough(status, headers, body) == [kind |-> "pass", http_status |-> status, headers |-> headers, body |-> body]

\* search_resource after the upstream GET (lines 559-576).
search_resource_response(resource, query_params, status, headers, body, index) ==
  IF status >= 400 THEN enrich_search_resource_error(resource, status, body, index)
  ELSE IF IsEmptyBundle(body) THEN empty_search_bundle_response(resource, query_params, index)
  ELSE PassThrough(status, filter_headers(headers), body)

\* any(issue.get("code") == "not-found" for issue in error_body.get("issue", [])):
\* "yes", "no", or "raise" when an item that is no object is reached first.
RECURSIVE AnyNotFound(_)
AnyNotFound(items) ==
  IF items = << >> THEN "no"
  ELSE IF Head(items).t # "obj" THEN "raise"
  ELSE IF IssueCode(Head(items)) = "not-found" THEN "yes"
  ELSE AnyNotFound(Tail(items))

\* The not-found test of read_resource (lines 512-518).
IsNotFoundOutcome(body) ==
  /\ body.kind = "json"
  /\ body.data.t = "obj"
  /\ IsStr(Get(body.data.v, "resourceType", JNull), "OperationOutcome")
  /\ Iterable(Get(body.data.v, "issue", JArr(<< >>)))
  /\ AnyNotFound(Items(Get(body.data.v, "issue", JArr(<< >>)))) = "yes"

\* Mutant: the not-found branch with diagnostics that do not name the id.
NotFoundResponse_no_id(resource, resource_id, status) ==
  LET diagnostics == "No " \o resource \o " resource was found."
      aix_error == render_error("not_found",
                     [resource_type |-> JStr(resource),
                      resource_id |-> JStr(IdText(resource_id)),
                      status_code |-> PyInt(status),
                      issues |-> << Issue("error", "not-found", diagnostics) >>])
  IN IF aix_error.ok THEN ErrorResponse(aix_error.val, status) ELSE NoResponse

\* The not-found branch of read_resource (lines 519-531), inside the try
\* block: NoResponse when rendering raises.
NotFoundResponse(resource, resource_id, status) ==
  LET diagnostics == "No " \o resource \o " resource was found with ID '"
                       \o IdText(resource_id) \o "'."
      aix_error == render_error("not_found",
                     [resource_type |-> JStr(resource),
                      resource_id |-> JStr(IdText(resource_id)),
                      status_code |-> PyInt(status),
                      issues |-> << Issue("error", "not-found", diagnostics) >>])
  IN IF aix_error.ok THEN ErrorResponse(aix_error.val, status) ELSE NoResponse

\* The fallback of read_resource (lines 535-547).
GenericReadResponse(resource, resource_id, status, body) ==
  Rendered("unknown_error",
    [resource_type |-> JStr(resource),
     resource_id |-> JStr(IdText(resource_id)),
     status_code |-> PyInt(status),
     issues |-> << Issue("error", "unknown", GenericDiagnostics(status, body)) >>],
    status)

\* read_resource after the upstream GET (lines 503-547).
read_resource_response(resource, resource_id, status, headers, body) ==
  IF 200 <= status /\ status < 300 THEN PassThrough(status, filter_headers(headers), body)
  ELSE LET not_found == IF IsNotFoundOutcome(body)
                        THEN NotFoundResponse(resource, resource_id, status)
                        ELSE NoResponse
       IN IF not_found.kind # "none" THEN not_found
          ELSE GenericReadResponse(resource, resource_id, status, body)

(***************************************************************************)
(* The metadata endpoint.                                                  *)
(***************************************************************************)
MetadataResponse(exc, status, body) == [exc |-> exc, status |-> status, body |-> body]

\* What GET <FHIR_SERVER_URL>/metadata may produce: a transport exception,
\* an error status, a body that is no JSON, JSON that is no object, a
\* document whose walk raises, or a capability document.
MetadataResponses ==
  << MetadataResponse(TRUE, 0, TextBody),
     MetadataResponse(FALSE, 404, JsonBody(DocA)),
     MetadataResponse(FALSE, 500, TextBody),
     MetadataResponse(FALSE, 200, TextBody),
     MetadataResponse(FALSE, 200, JsonBody(JArr(<< >>))),
     MetadataResponse(FALSE, 200, JsonBody(DocRestNull)),
     MetadataResponse(FALSE, 200, JsonBody(DocBadResource)),
     MetadataResponse(FALSE, 200, JsonBody(DocA)),
     MetadataResponse(FALSE, 200, JsonBody(DocB)),
     MetadataResponse(FALSE, 200, JsonBody(DocC)) >>

(***************************************************************************)
(* State.                                                                  *)
(***************************************************************************)
VARIABLES
  threaded,          \* the server handles each request on a thread of its own
  process,           \* the proxy process: running, or exited with a code
  capability_index,  \* the module global: None or the cached index
  pc,                \* where each thread is in its request
  request,           \* the request each thread handles
  loaded,            \* the index load_capability_statement returned to a thread
  local_idx,         \* the index get_capability_index returned to a thread
  response,          \* the response each thread returned
  metadata_calls,    \* GETs of the metadata endpoint so far
  index_loads,       \* indexes load_capability_statement has built so far
  resource_calls,    \* upstream resource GETs of each thread's request
  upstream,          \* the upstream response each thread received
  render_call,       \* the arguments of a direct call of render_error
  render_result      \* what that call returned or raised

vars == << threaded, process, capability_index, pc, request, loaded, local_idx,
           response, metadata_calls, index_loads, resource_calls, upstream,
           render_call, render_result, matcher >>

\* No upstream response yet.
NoUpstream == [status |-> 0, headers |-> NoHeaders, body |-> [kind |-> "none", data |-> JNull, text |-> ""]]
\* No call of render_error under way.
NoCall == [error_type |-> Null]

None == [none |-> TRUE]

Running == [state |-> "running"]
\* sys.exit(code) reaching the top of the main thread.
Exited(code) == [state |-> "exited", code |-> code]

Init ==
  /\ threaded \in BOOLEAN
  /\ process = Running
  /\ capability_index = None
  /\ pc = [t \in Threads |-> "idle"]
  /\ request = [t \in Threads |-> NoRequest]
  /\ loaded = [t \in Threads |-> None]
  /\ local_idx = [t \in Threads |-> None]
  /\ response = [t \in Threads |-> NoResponse]
  /\ metadata_calls = 0
  /\ index_loads = 0
  /\ resource_calls = [t \in Threads |-> 0]
  /\ upstream = [t \in Threads |-> NoUpstream]
  /\ render_call = NoCall
  /\ render_result = Raised
  /\ matcher = ClosePairs

\* A request reaches its route and a thread starts on it. Flask's
\* development server (app.run, line 630) is threaded by default, so
\* requests overlap; a server without threads takes one request at a time.
\* Both routes call get_capability_index() before they look at their
\* arguments, which are drawn where they are first read (Reject, Forward).
Arrive(t) ==
  /\ process = Running
  /\ pc[t] = "idle"
  /\ threaded \/ \A u \in Threads : pc[u] = "idle"
  /\ pc' = [pc EXCEPT ![t] = "get_index"]
  /\ UNCHANGED << matcher, render_call, render_result, upstream,
                  threaded, process, capability_index, request, loaded, local_idx,
                  response, metadata_calls, index_loads, resource_calls >>

\* get_capability_index with the index cached: `capability_index is None`
\* is false and the global is returned.
GetIndexCached(t) ==
  /\ process = Running
  /\ pc[t] = "get_index"
  /\ capability_index # None
  /\ local_idx' = [local_idx EXCEPT ![t] = capability_index]
  /\ pc' = [pc EXCEPT ![t] = "validate"]
  /\ UNCHANGED << matcher, render_call, render_result, upstream,
                  threaded, process, capability_index, request, loaded, response,
                  metadata_calls, index_loads, resource_calls >>

\* get_capability_index with no index cached: the thread has seen None and
\* enters load_capability_statement (no lock is taken).
GetIndexMiss(t) ==
  /\ process = Running
  /\ pc[t] = "get_index"
  /\ capability_index = None
  /\ pc' = [pc EXCEPT ![t] = "load"]
  /\ UNCHANGED << matcher, render_call, render_result, upstream,
                  threaded, process, capability_index, request, loaded, local_idx,
                  response, metadata_calls, index_loads, resource_calls >>

\* load_capability_statement fetches the document and returns the index.
LoadReturns(t) ==
  /\ process = Running
  /\ pc[t] = "load"
  /\ metadata_calls < MaxMetadataCalls
  /\ \E i \in DOMAIN MetadataResponses :
       LET r == load_capability_statement_try(MetadataResponses[i]) IN
       /\ r.ok
       /\ loaded' = [loaded EXCEPT ![t] = r.val]
  /\ metadata_calls' = metadata_calls + 1
  /\ index_loads' = index_loads + 1
  /\ pc' = [pc EXCEPT ![t] = "store"]
  /\ UNCHANGED << matcher, render_call, render_result, upstream,
                  threaded, process, capability_index, request, local_idx, response,
                  resource_calls >>

\* sys.exit(1) in the except branch (lines 82-94) raises SystemExit in the
\* thread that runs the request. On the main thread (a server without
\* threads) it ends the process with code 1; on a worker thread of the
\* threaded server it ends that thread only: the request gets no response
\* and the process keeps serving.
sys_exit(t, code) ==
  IF threaded
  THEN /\ pc' = [pc EXCEPT ![t] = "dead"]
       /\ UNCHANGED process
  ELSE /\ process' = Exited(code)
       /\ UNCHANGED pc

\* load_capability_statement fails: the fetch raises, the status is an
\* error, or the body cannot be parsed or walked.
LoadFails(t) ==
  /\ process = Running
  /\ pc[t] = "load"
  /\ metadata_calls < MaxMetadataCalls
  /\ \E i \in DOMAIN MetadataResponses :
       ~load_capability_statement_try(MetadataResponses[i]).ok
  /\ metadata_calls' = metadata_calls + 1
  /\ sys_exit(t, 1)
  /\ UNCHANGED << matcher, render_call, render_result, upstream,
                  threaded, capability_index, request, loaded, local_idx, response,
                  index_loads, resource_calls >>

\* `capability_index = load_capability_statement()`: the global is assigned.
Store(t) ==
  /\ process = Running
  /\ pc[t] = "store"
  /\ capability_index' = loaded[t]
  /\ loaded' = [loaded EXCEPT ![t] = None]
  /\ pc' = [pc EXCEPT ![t] = "return_index"]
  /\ UNCHANGED << matcher, render_call, render_result, upstream,
                  threaded, process, request, local_idx, response, metadata_calls,
                  index_loads, resource_calls >>

\* `return capability_index` after the assignment: the global is read again.
ReturnIndex(t) ==
  /\ process = Running
  /\ pc[t] = "return_index"
  /\ local_idx' = [local_idx EXCEPT ![t] = capability_index]
  /\ pc' = [pc EXCEPT ![t] = "validate"]
  /\ UNCHANGED << matcher, render_call, render_result, upstream,
                  threaded, process, capability_index, request, loaded, response,
                  metadata_calls, index_loads, resource_calls >>

\* Prevalidation of a request of `requests` fails: the route returns the
\* error envelope.
RejectOf(t, requests) ==
  /\ process = Running
  /\ pc[t] = "validate"
  /\ \E r \in requests :
       LET v == Prevalidate(local_idx[t], r) IN
       /\ ~v.is_valid
       /\ request' = [request EXCEPT ![t] = r]
       /\ response' = [response EXCEPT ![t] = v.error_response]
  /\ pc' = [pc EXCEPT ![t] = "done"]
  /\ UNCHANGED << matcher, render_call, render_result, upstream,
                  threaded, process, capability_index, loaded, local_idx,
                  metadata_calls, index_loads, resource_calls >>

\* Prevalidation of a request of `requests` passes: requests.get(fhir_url)
\* is issued.
ForwardOf(t, requests) ==
  /\ process = Running
  /\ pc[t] = "validate"
  /\ \E r \in requests :
       /\ Prevalidate(local_idx[t], r).is_valid
       /\ request' = [request EXCEPT ![t] = r]
  /\ resource_calls' = [resource_calls EXCEPT ![t] = @ + 1]
  /\ pc' = [pc EXCEPT ![t] = "upstream"]
  /\ UNCHANGED << matcher, render_call, render_result, upstream,
                  threaded, process, capability_index, loaded, local_idx,
                  response, metadata_calls, index_loads >>

Reject(t) == RejectOf(t, SampleRequests)
Forward(t) == ForwardOf(t, SampleRequests)

\* The route's handling of the upstream response; the search route calls
\* get_capability_index() again, which returns the global as it is now.
HandleUpstream(req, status, headers, body, index) ==
  IF req.route = "read"
  THEN read_resource_response(req.resource, req.resource_id, status, headers, body)
  ELSE search_resource_response(req.resource, req.args, status, headers, body, index)

\* An upstream response of `responses` arrives and the route returns.
RespondOf(t, responses, header_sets) ==
  /\ process = Running
  /\ pc[t] = "upstream"
  /\ \E u \in responses, headers \in header_sets :
       /\ upstream' = [upstream EXCEPT ![t] =
                         [status |-> u[1], headers |-> headers,
                          body |-> UpstreamBodies[u[2]]]]
       /\ response' = [response EXCEPT ![t] =
                         HandleUpstream(request[t], u[1], headers,
                                        UpstreamBodies[u[2]], capability_index)]
  /\ pc' = [pc EXCEPT ![t] = "done"]
  /\ UNCHANGED << matcher, render_call, render_result,
                  threaded, process, capability_index, request, loaded, local_idx,
                  metadata_calls, index_loads, resource_calls >>

Respond(t) == RespondOf(t, SampleResponses, SampleHeaders)

\* The thread is free for the next request.
Finish(t) ==
  /\ process = Running
  /\ pc[t] \in {"done", "dead"}
  /\ pc' = [pc EXCEPT ![t] = "idle"]
  /\ request' = [request EXCEPT ![t] = NoRequest]
  /\ loaded' = [loaded EXCEPT ![t] = None]
  /\ local_idx' = [local_idx EXCEPT ![t] = None]
  /\ response' = [response EXCEPT ![t] = NoResponse]
  /\ resource_calls' = [resource_calls EXCEPT ![t] = 0]
  /\ upstream' = [upstream EXCEPT ![t] = NoUpstream]
  /\ UNCHANGED << matcher, render_call, render_result,
                  threaded, process, capability_index, metadata_calls, index_loads >>

Next ==
  \E t \in Threads :
    \/ Arrive(t)
    \/ GetIndexCached(t)
    \/ GetIndexMiss(t)
    \/ LoadReturns(t)
    \/ LoadFails(t)
    \/ Store(t)
    \/ ReturnIndex(t)
    \/ Reject(t)
    \/ Forward(t)
    \/ Respond(t)
    \/ Finish(t)

Spec == Init /\ [][Next]_vars

(***************************************************************************)
(* Prevalidation on its own: one thread of a server without threads, the   *)
(* index already cached, given every request of Requests.                  *)
(***************************************************************************)
\* The indexes load_capability_statement builds from the documents.
LoadedIndexes ==
  { load_capability_statement_try(MetadataResponses[i]).val :
      i \in { j \in DOMAIN MetadataResponses :
                load_capability_statement_try(MetadataResponses[j]).ok } }

InitValidate ==
  /\ threaded = FALSE
  /\ process = Running
  /\ capability_index \in LoadedIndexes
  /\ pc = [t \in Threads |-> "idle"]
  /\ request = [t \in Threads |-> NoRequest]
  /\ loaded = [t \in Threads |-> None]
  /\ local_idx = [t \in Threads |-> None]
  /\ response = [t \in Threads |-> NoResponse]
  /\ metadata_calls = 1
  /\ index_loads = 1
  /\ resource_calls = [t \in Threads |-> 0]
  /\ upstream = [t \in Threads |-> NoUpstream]
  /\ render_call = NoCall
  /\ render_result = Raised
  /\ matcher = ClosePairs

RejectAny(t) == RejectOf(t, Requests)
ForwardAny(t) == ForwardOf(t, Requests)

NextValidate ==
  \/ Arrive(1)
  \/ GetIndexCached(1)
  \/ RejectAny(1)
  \/ ForwardAny(1)
  \/ Respond(1)
  \/ Finish(1)

SpecValidate == InitValidate /\ [][NextValidate]_vars

(***************************************************************************)
(* The matcher varied: the prevalidation of every request while the set of *)
(* pairs difflib.get_close_matches reports as close changes at any time.   *)
(***************************************************************************)
\* The pairs the matcher may report: the real ones and wrong ones.
MatcherPairs ==
  { << "Patiant", "Patient" >>, << "nmae", "name" >>,
    << "Patiant", "Basic" >>, << "nmae", "_id" >> }

\* The matcher answers differently from now on: one pair more or less.
Rematch ==
  /\ process = Running
  /\ \E pair \in MatcherPairs :
       matcher' = IF pair \in matcher THEN matcher \ {pair} ELSE matcher \cup {pair}
  /\ UNCHANGED << threaded, process, capability_index, pc, request, loaded, local_idx,
                  response, metadata_calls, index_loads, resource_calls, upstream,
                  render_call, render_result >>

NextMatcher ==
  \/ Arrive(1)
  \/ GetIndexCached(1)
  \/ RejectAny(1)
  \/ ForwardAny(1)
  \/ Respond(1)
  \/ Finish(1)
  \/ Rematch

SpecMatcher == InitValidate /\ [][NextMatcher]_vars

(***************************************************************************)
(* The handling of the upstream response on its own: one thread, the index *)
(* already cached, the requests of the system, every upstream response.    *)
(***************************************************************************)
RespondAny(t) == RespondOf(t, UpstreamResponses, UpstreamHeaders)

NextUpstream ==
  \/ Arrive(1)
  \/ GetIndexCached(1)
  \/ Reject(1)
  \/ Forward(1)
  \/ RespondAny(1)
  \/ Finish(1)

SpecUpstream == InitValidate /\ [][NextUpstream]_vars

(***************************************************************************)
(* render_error on its own, called as the tests call it: every error type  *)
(* in use and one without a template, with contexts in which each field is *)
(* absent, None or set.                                                    *)
(***************************************************************************)
ErrorTypes == (DOMAIN CODE_ERROR_DEFS) \cup {"unknown_error", "not_a_real_error_type"}

\* The context fields that are str or int, and a value of each.
ScalarFields == {"resource_type", "resource_id", "status_code", "diagnostics"}
ScalarValue(field) ==
  CASE field = "resource_type" -> JStr("Patient")
    [] field = "resource_id" -> JStr("badid")
    [] field = "status_code" -> PyInt(404)
    [] field = "diagnostics" -> JStr("Bad value")

\* The context fields the model gives one value or leaves out.
OtherFields == {"expected_id_format", "supported_params", "supported_param_schema", "issues"}
CallerIssues ==
  { << >>,
    << Issue("error", "not-found", "Resource is not known") >>,
    << [code |-> JStr("invalid")], Issue("warning", "value", "Bad value") >>,
    << [severity |-> JStr("error"), code |-> JStr("structure"), diagnostics |-> JNull] >> }
\* Values of supported_param_schema: no descriptor, one, and descriptors
\* without a name as load_capability_statement stores them.
Schemas ==
  { << >>,
    << [name |-> "name", type |-> "string", documentation |-> Null, example |-> Null] >>,
    << [name |-> "name", type |-> "string", documentation |-> "Patient name",
        example |-> Null],
       [name |-> Null, type |-> "token", documentation |-> Null, example |-> Null] >> }
OtherValue(field, issues, schema) ==
  CASE field = "expected_id_format" -> JStr("1-64 characters")
    [] field = "supported_params" -> StrList(<< "name" >>)
    [] field = "supported_param_schema" -> schema
    [] field = "issues" -> issues

\* The dict passed as error_data.
ErrorData(scalars, others, issues, schema) ==
  [f \in { g \in ScalarFields : scalars[g] # "absent" } \cup others |->
     IF f \in ScalarFields
     THEN (IF scalars[f] = "None" THEN JNull ELSE ScalarValue(f))
     ELSE OtherValue(f, issues, schema)]

\* render_error(error_type, error_data) is called and returns or raises.
Render ==
  /\ render_call = NoCall
  /\ \E error_type \in ErrorTypes, scalars \in [ScalarFields -> {"absent", "None", "value"}],
        others \in SUBSET OtherFields, issues \in CallerIssues, schema \in Schemas :
       /\ ("issues" \notin others) => (issues = << >>)
       /\ ("supported_param_schema" \notin others) => (schema = << >>)
       /\ render_call' = [error_type |-> error_type,
                          error_data |-> ErrorData(scalars, others, issues, schema)]
       /\ render_result' =
            render_error(error_type, ErrorData(scalars, others, issues, schema))
  /\ UNCHANGED << matcher, threaded, process, capability_index, pc, request, loaded, local_idx,
                  response, metadata_calls, index_loads, resource_calls, upstream >>

\* The caller is done with the result.
RenderDone ==
  /\ render_call # NoCall
  /\ render_call' = NoCall
  /\ render_result' = Raised
  /\ UNCHANGED << matcher, threaded, process, capability_index, pc, request, loaded, local_idx,
                  response, metadata_calls, index_loads, resource_calls, upstream >>

NextRender == Render \/ RenderDone

SpecRender == InitValidate /\ [][NextRender]_vars

(***************************************************************************)
(* The places envelopes come from, together: every request and every       *)
(* upstream response of one thread, and render_error called directly while *)
(* no request is under way.                                                *)
(***************************************************************************)
\* A direct call of render_error and a request do not overlap.
NoRender == render_call = NoCall
NoRequestUnderWay == \A t \in Threads : pc[t] = "idle"

NextEnvelope ==
  \/ NoRender /\ Arrive(1)
  \/ NoRender /\ GetIndexCached(1)
  \/ NoRender /\ RejectAny(1)
  \/ NoRender /\ ForwardAny(1)
  \/ NoRender /\ RespondAny(1)
  \/ NoRender /\ Finish(1)
  \/ NoRequestUnderWay /\ Render
  \/ RenderDone

SpecEnvelope == InitValidate /\ [][NextEnvelope]_vars

(***************************************************************************)
(* Properties.                                                             *)
(***************************************************************************)
\* Thread t has decided its request: it was rejected or forwarded.
Decided(t) == pc[t] \in {"upstream", "done"}

\* Thread t rejected its request with the envelope of this kind and issue
\* code, status 400, without an upstream call.
Returned400(t, error_type, code) ==
  /\ pc[t] = "done"
  /\ resource_calls[t] = 0
  /\ response[t].kind = "error"
  /\ response[t].http_status = 400
  /\ response[t].envelope.status_code = 400
  /\ response[t].envelope.error = error_text(error_type)
  /\ Len(response[t].envelope.issues) = 1
  /\ response[t].envelope.issues[1].severity = "error"
  /\ response[t].envelope.issues[1].code = code

KnownType(t) == request[t].resource \in DOMAIN local_idx[t]

\* The names of the descriptors of t's resource type that have a name.
DeclaredNames(t) ==
  { local_idx[t][request[t].resource][i].name :
      i \in DOMAIN local_idx[t][request[t].resource] } \ {Null, ""}

HasDuplicate(t) == \E k \in ParamKeys : request[t].args[k] >= 2
HasUnknown(t) == \E k \in ParamKeys : request[t].args[k] >= 1 /\ k \notin DeclaredNames(t)
EmptyQuery(t) == \A k \in ParamKeys : request[t].args[k] = 0

\* 1 to 64 characters, all letters, digits, '-' or '.'.
WellFormedId(id) ==
  /\ Len(id) >= 1
  /\ Len(id) <= 64
  /\ \A i \in 1..Len(id) : id[i] \in IdClass

\* The request of t fails one of the checks of its route.
FailsACheck(t) ==
  \/ ~KnownType(t)
  \/ request[t].route = "read" /\ ~FHIR_ID_PATTERN_match(request[t].resource_id)
  \/ request[t].route = "search" /\ (HasDuplicate(t) \/ HasUnknown(t) \/ EmptyQuery(t))

\* C1: a request that fails prevalidation (unsupported type, invalid id,
\* duplicate, unsupported or missing parameter) is answered with a 400
\* envelope and no upstream resource fetch is ever issued for it.
C1_RejectedNeverForwarded ==
  \A t \in Threads :
    (Decided(t) /\ FailsACheck(t)) =>
      /\ resource_calls[t] = 0
      /\ pc[t] = "done"
      /\ response[t].kind = "error"
      /\ response[t].http_status = 400

C1_Witness ==
  \E t, u \in Threads :
    /\ t # u
    /\ Returned400(t, "invalid_param", "duplicate-param")
    /\ resource_calls[t] = 0
    /\ pc[u] = "upstream"
    /\ resource_calls[u] = 1

\* C2: the capability document is fetched and the index built at most
\* once, however the first get_capability_index calls interleave.
C2_LoadedAtMostOnce == index_loads <= 1

\* C3: once the index is cached it is never replaced and the metadata
\* endpoint is never called again.
C3_CachedIndexIsStable ==
  [][capability_index # None =>
       (capability_index' = capability_index /\ metadata_calls' = metadata_calls)]_vars

\* C4: whenever a capability fetch has failed, the process has exited with
\* code 1 and no index is cached, so that no later request is answered.
C4_FailedLoadIsFatal ==
  (metadata_calls > index_loads) =>
    /\ process = Exited(1)
    /\ capability_index = None

\* C5: a resource type that is no key of the index yields the invalid-type
\* failure on the read path for any id and on the search path for any
\* query; the type check wins over every later check.
C5_UnknownTypeIsInvalidType ==
  \A t \in Threads :
    (Decided(t) /\ ~KnownType(t)) => Returned400(t, "invalid-type", "invalid-type")

C5_Witness ==
  \E t \in Threads :
    /\ Returned400(t, "invalid-type", "invalid-type")
    /\ ~KnownType(t)
    /\ request[t].route = "search"
    /\ request[t].args["nmae"] = 2
    /\ request[t].args["name"] = 1

\* C6: on a known type a read is rejected with the invalid-id failure
\* exactly when the id is not 1 to 64 characters of letters, digits, '-'
\* and '.'.
C6_InvalidIdExactly ==
  \A t \in Threads :
    (Decided(t) /\ request[t].route = "read" /\ KnownType(t)) =>
      (Returned400(t, "invalid_id", "invalid-id") <=> ~WellFormedId(request[t].resource_id))

\* C7: on a known type a query with a key supplied twice or more yields
\* the duplicate-parameter failure, never the unsupported-parameter one,
\* whether or not the key is supported and other keys are unknown.
C7_DuplicateBeforeUnknown ==
  \A t \in Threads :
    (Decided(t) /\ request[t].route = "search" /\ KnownType(t) /\ HasDuplicate(t)) =>
      Returned400(t, "invalid_param", "duplicate-param")

C7_Witness ==
  \E t \in Threads :
    /\ Returned400(t, "invalid_param", "duplicate-param")
    /\ request[t].resource = "Patient"
    /\ request[t].args["name"] = 2
    /\ request[t].args["nmae"] = 1

\* C8 as stated: on a known type every non-empty query whose keys are all
\* supported is valid and forwarded.
C8_SupportedKeysAreValid ==
  \A t \in Threads :
    (Decided(t) /\ request[t].route = "search" /\ KnownType(t)
       /\ ~EmptyQuery(t) /\ ~HasUnknown(t)) =>
      resource_calls[t] = 1

\* C8 amended: on a known type every non-empty query whose keys are all
\* supported and each supplied once is valid and forwarded.
C8_SupportedKeysOnceAreValid ==
  \A t \in Threads :
    (Decided(t) /\ request[t].route = "search" /\ KnownType(t)
       /\ ~EmptyQuery(t) /\ ~HasUnknown(t) /\ ~HasDuplicate(t)) =>
      resource_calls[t] = 1

C8_Witness ==
  \E t \in Threads :
    /\ pc[t] = "upstream"
    /\ resource_calls[t] = 1
    /\ request[t].route = "search"
    /\ request[t].args["name"] = 1
    /\ request[t].args["_id"] = 1

\* C9: on a known type and a query without duplicated keys, the
\* unsupported-parameter failure is the outcome exactly when some key is
\* not the name of a descriptor with a non-empty name.
C9_UnknownExactly ==
  \A t \in Threads :
    (Decided(t) /\ request[t].route = "search" /\ KnownType(t) /\ ~HasDuplicate(t)) =>
      (Returned400(t, "invalid_param", "invalid-param") <=> HasUnknown(t))

\* The only key is the empty string and a descriptor of the type has the
\* empty name.
C9_Witness ==
  \E t \in Threads :
    /\ Returned400(t, "invalid_param", "invalid-param")
    /\ request[t].args = OneKey("", 1)
    /\ \E i \in DOMAIN local_idx[t][request[t].resource] :
         local_idx[t][request[t].resource][i].name = ""

\* C10: a search with no query parameter on a known type yields the
\* missing-parameter failure with status 400, and that failure is returned
\* only when the type is known and the query is empty.
C10_EmptyQueryIsMissingParam ==
  \A t \in Threads :
    (Decided(t) /\ request[t].route = "search") =>
      (Returned400(t, "missing_param", "missing-param") <=> (KnownType(t) /\ EmptyQuery(t)))

C10_Witness ==
  \E t \in Threads :
    /\ Returned400(t, "missing_param", "missing-param")
    /\ request[t].resource = "Basic"
    /\ EmptyQuery(t)

\* C11: every error response of the read and search routes has an HTTP
\* status equal to its envelope's status_code: 400 for a prevalidation
\* failure, the upstream status for an upstream failure, never -1.
C11_StatusIsEnvelopeStatus ==
  \A t \in Threads :
    (pc[t] = "done" /\ response[t].kind = "error") =>
      /\ response[t].http_status = response[t].envelope.status_code
      /\ response[t].envelope.status_code # -1
      /\ (resource_calls[t] = 0) => (response[t].http_status = 400)
      /\ (resource_calls[t] = 1) => (response[t].http_status = upstream[t].status)

C11_Witness ==
  \E t \in Threads :
    /\ pc[t] = "done"
    /\ response[t].kind = "error"
    /\ request[t].route = "search"
    /\ upstream[t].status = 500
    /\ upstream[t].body.kind = "text"
    /\ response[t].http_status = 500
    /\ response[t].envelope.status_code = 500

\* The outcomes of a request at rest: nothing before it has ended, one of
\* the three outcomes once it has, and one upstream fetch at most, made
\* only for a request that passed prevalidation.
C12_Outcome(t) ==
  /\ resource_calls[t] \in {0, 1}
  /\ (resource_calls[t] = 1) =>
        /\ pc[t] \in {"upstream", "done"}
        /\ Prevalidate(local_idx[t], request[t]).is_valid
  /\ (pc[t] = "upstream") => (resource_calls[t] = 1 /\ upstream[t] = NoUpstream)
  /\ (pc[t] = "done") =>
        /\ response[t].kind \in {"error", "empty", "pass"}
        /\ (resource_calls[t] = 0) <=>
             (upstream[t] = NoUpstream /\ ~Prevalidate(local_idx[t], request[t]).is_valid)
        /\ (resource_calls[t] = 0) => (response[t].kind = "error")
        /\ (resource_calls[t] = 1) => (upstream[t] # NoUpstream)
  /\ (pc[t] # "done") => (response[t] = NoResponse)

\* The steps of a request: the fetch is issued from the validated state
\* only, the response is classified in the step that receives it, and the
\* outcome, once given, is not replaced.
C12_Step(t) ==
  /\ (resource_calls'[t] > resource_calls[t]) =>
        /\ pc[t] = "validate" /\ pc'[t] = "upstream"
        /\ resource_calls[t] = 0
        /\ Prevalidate(local_idx[t], request'[t]).is_valid
  /\ (upstream'[t] # upstream[t] /\ upstream'[t] # NoUpstream) =>
        /\ pc[t] = "upstream" /\ pc'[t] = "done"
        /\ upstream[t] = NoUpstream
        /\ response'[t] = HandleUpstream(request[t], upstream'[t].status,
                                         upstream'[t].headers,
                                         upstream'[t].body, capability_index)
  /\ (pc[t] = "done" /\ pc'[t] = "done") =>
        /\ response'[t] = response[t]
        /\ upstream'[t] = upstream[t]
        /\ resource_calls'[t] = resource_calls[t]

C13_IsOutcome(body) ==
  /\ body.kind = "json"
  /\ body.data.t = "obj"
  /\ "resourceType" \in DOMAIN body.data.v
  /\ body.data.v.resourceType = JStr("OperationOutcome")
  /\ "issue" \in DOMAIN body.data.v
  /\ body.data.v.issue.t = "arr"
  /\ body.data.v.issue.v # << >>
  /\ \A i \in DOMAIN body.data.v.issue.v :
       LET issue == body.data.v.issue.v[i] IN
       /\ issue.t = "obj"
       /\ \A k \in DOMAIN issue.v \ {"details"} : issue.v[k].t \in {"str", "null"}
       /\ ("details" \in DOMAIN issue.v) =>
            \/ issue.v.details.t \in {"str", "null"}
            \/ /\ issue.v.details.t = "obj"
               /\ \A k \in DOMAIN issue.v.details.v : issue.v.details.v[k].t \in {"str", "null"}

C13_Has(issue, key, values) ==
  key \in DOMAIN issue.v /\ issue.v[key].t = "str" /\ issue.v[key].v \in values

C13_Rule1(issue) == C13_Has(issue, "code", {"invalid", "value"})
C13_Rule2(issue) == C13_Has(issue, "code", {"not-supported", "unknown", "processing"})
C13_Rule3(issue) ==
  C13_Has(issue, "code", {"structure", "required", "invalid"})
    /\ C13_Has(issue, "severity", {"error"})
C13_Rule4(issue) == C13_Has(issue, "severity", {"error", "warning"})

\* The issues of the first rule that matches, in upstream order; none when
\* no rule matches.
C13_Selected(body) ==
  LET issues == body.data.v.issue.v IN
  IF SelectSeq(issues, C13_Rule1) # << >> THEN SelectSeq(issues, C13_Rule1)
  ELSE IF SelectSeq(issues, C13_Rule2) # << >> THEN SelectSeq(issues, C13_Rule2)
  ELSE IF SelectSeq(issues, C13_Rule3) # << >> THEN SelectSeq(issues, C13_Rule3)
  ELSE IF Len(SelectSeq(issues, C13_Rule4)) > 1 THEN SelectSeq(issues, C13_Rule4)
  ELSE << >>

\* The search route has returned for an upstream failure.
SearchFailed(t) ==
  /\ pc[t] = "done"
  /\ request[t].route = "search"
  /\ resource_calls[t] = 1
  /\ upstream[t].status >= 400

ActionableIssues(body) == SelectSeq(body.data.v.issue.v, C13_Rule4)

\* C14: when the body of an upstream search failure carries more than one
\* issue with severity error or warning, the envelope's issues are exactly
\* those issues: as many as the outcome had, each with its code and
\* diagnostics, in upstream order.
C14_EveryActionableIssueKept ==
  \A t \in Threads :
    (/\ SearchFailed(t)
     /\ C13_IsOutcome(upstream[t].body)
     /\ Len(ActionableIssues(upstream[t].body)) > 1) =>
      LET actionable == ActionableIssues(upstream[t].body)
          issues == response[t].envelope.issues
      IN /\ response[t].kind = "error"
         /\ Len(issues) = Len(actionable)
         /\ \A i \in DOMAIN actionable :
              \A k \in {"code", "diagnostics"} :
                (k \in DOMAIN actionable[i].v) => (issues[i][k] = PyStr(actionable[i].v[k]))

\* The issue has diagnostics that are a non-empty string.
HasDiagnostics(issue) ==
  /\ "diagnostics" \in DOMAIN issue.v
  /\ issue.v.diagnostics.t = "str"
  /\ issue.v.diagnostics.v # ""

\* The diagnostics of the issues of an OperationOutcome whose issues are
\* objects with string, null or absent diagnostics; none for any other body.
OutcomeDiagnostics(body) ==
  IF /\ body.kind = "json"
     /\ body.data.t = "obj"
     /\ "resourceType" \in DOMAIN body.data.v
     /\ body.data.v.resourceType = JStr("OperationOutcome")
     /\ "issue" \in DOMAIN body.data.v
     /\ body.data.v.issue.t = "arr"
     /\ \A i \in DOMAIN body.data.v.issue.v :
          /\ body.data.v.issue.v[i].t = "obj"
          /\ ("diagnostics" \in DOMAIN body.data.v.issue.v[i].v) =>
               (body.data.v.issue.v[i].v.diagnostics.t \in {"str", "null"})
  THEN LET diagnosed == SelectSeq(body.data.v.issue.v, HasDiagnostics)
       IN [i \in DOMAIN diagnosed |-> diagnosed[i].v.diagnostics.v]
  ELSE << >>

\* No rule of the classifier matches the body.
NoRuleMatches(body) == ~C13_IsOutcome(body) \/ C13_Selected(body) = << >>

\* C15: for an upstream search failure with status 405 or 422 that no rule
\* 1-4 matches, the envelope carries exactly one caller issue, with code
\* method-not-allowed (405) or unprocessable-entity (422), whose diagnostics
\* are the diagnostics of the outcome's issues when there are any and
\* "FHIR server returned status <code>: <raw body>" otherwise; the status
\* returned is the upstream status.
C15_MethodOrEntityError ==
  \A t \in Threads :
    (/\ SearchFailed(t)
     /\ upstream[t].status \in {405, 422}
     /\ NoRuleMatches(upstream[t].body)) =>
      LET issues == response[t].envelope.issues
          IsCallerIssue(issue) == issue.code # "incomplete-context"
          found == OutcomeDiagnostics(upstream[t].body)
      IN /\ response[t].kind = "error"
         /\ response[t].http_status = upstream[t].status
         /\ response[t].envelope.status_code = upstream[t].status
         /\ Len(SelectSeq(issues, IsCallerIssue)) = 1
         /\ issues[1].severity = "error"
         /\ issues[1].code = (IF upstream[t].status = 405 THEN "method-not-allowed"
                              ELSE "unprocessable-entity")
         /\ issues[1].diagnostics =
              (IF found # << >> THEN Join(found, "; ")
               ELSE "FHIR server returned status " \o ToString(upstream[t].status)
                      \o ": " \o upstream[t].body.text)

\* A 405 whose outcome has one not-found issue: no rule matches and the
\* issue's diagnostics are the caller issue's.
C15_Witness ==
  \E t \in Threads :
    /\ SearchFailed(t)
    /\ upstream[t].status = 405
    /\ C13_IsOutcome(upstream[t].body)
    /\ C13_Selected(upstream[t].body) = << >>
    /\ OutcomeDiagnostics(upstream[t].body) = << "Resource Patient/a is not known" >>
    /\ response[t].envelope.issues[1].code = "method-not-allowed"
    /\ response[t].envelope.issues[1].diagnostics = "Resource Patient/a is not known"

\* The read route has returned for an upstream response that is no success.
ReadFailed(t) ==
  /\ pc[t] = "done"
  /\ request[t].route = "read"
  /\ resource_calls[t] = 1
  /\ ~(200 <= upstream[t].status /\ upstream[t].status < 300)

\* The body is an OperationOutcome with an issue whose code is not-found.
HasNotFoundIssue(body) ==
  /\ body.kind = "json"
  /\ body.data.t = "obj"
  /\ "resourceType" \in DOMAIN body.data.v
  /\ body.data.v.resourceType = JStr("OperationOutcome")
  /\ "issue" \in DOMAIN body.data.v
  /\ body.data.v.issue.t = "arr"
  /\ \E i \in DOMAIN body.data.v.issue.v :
       /\ body.data.v.issue.v[i].t = "obj"
       /\ C13_Has(body.data.v.issue.v[i], "code", {"not-found"})

\* The envelope of the generic upstream error: one issue, code unknown,
\* diagnostics naming the status and the raw text of the body.
IsGenericUpstreamError(t) ==
  /\ response[t].kind = "error"
  /\ response[t].http_status = upstream[t].status
  /\ response[t].envelope.status_code = upstream[t].status
  /\ Len(response[t].envelope.issues) = 1
  /\ response[t].envelope.issues[1].severity = "error"
  /\ response[t].envelope.issues[1].code = "unknown"
  /\ response[t].envelope.issues[1].diagnostics =
       "FHIR server returned status " \o ToString(upstream[t].status)
         \o ": " \o upstream[t].body.text

\* C16: when no specific rule matches an upstream failure (search: no rule
\* 1-4 and a status other than 405 and 422; read: no not-found issue), the
\* envelope has the single issue with code unknown and diagnostics
\* "FHIR server returned status <status>: <raw body text>", and the upstream
\* status is returned.
C16_GenericUpstreamError ==
  \A t \in Threads :
    /\ (/\ SearchFailed(t)
        /\ upstream[t].status \notin {405, 422}
        /\ NoRuleMatches(upstream[t].body)) => IsGenericUpstreamError(t)
    /\ (ReadFailed(t) /\ ~HasNotFoundIssue(upstream[t].body)) => IsGenericUpstreamError(t)

\* A read answered 500 with a body of plain text.
C16_Witness ==
  \E t \in Threads :
    /\ ReadFailed(t)
    /\ upstream[t].status = 500
    /\ upstream[t].body.kind = "text"
    /\ response[t].envelope.issues[1].code = "unknown"
    /\ response[t].envelope.issues[1].diagnostics
         = "FHIR server returned status 500: Internal Server Error"

\* An upstream failure has been answered by either route.
UpstreamFailed(t) == SearchFailed(t) \/ ReadFailed(t)

\* The body is unparseable or unexpected: no JSON, no object, no
\* OperationOutcome, or an outcome whose issue field is no non-empty list of
\* objects with string, null or absent members.
UnexpectedBody(body) == ~C13_IsOutcome(body)

\* C17 as stated: classifying an upstream failure never raises, and every
\* unparseable or unexpected body degrades to the generic upstream error
\* with the raw body text in its diagnostics.
C17_UnexpectedBodyIsGeneric ==
  \A t \in Threads :
    UpstreamFailed(t) =>
      /\ response[t].kind = "error"
      /\ UnexpectedBody(upstream[t].body) => IsGenericUpstreamError(t)

\* C17, amended: classifying an upstream failure never raises, whatever the
\* body is. An unparseable or unexpected body degrades to the generic
\* upstream error with the raw body text in its diagnostics, except that a
\* search answered 405 or 422 degrades to the method-or-entity error (whose
\* diagnostics are the raw-body text unless the issues carry string
\* diagnostics) and a read whose body has a not-found issue object ahead of
\* any malformed item yields the not-found envelope.
C17_UnexpectedBodyDegrades ==
  \A t \in Threads :
    UpstreamFailed(t) =>
      LET body == upstream[t].body
          issues == response[t].envelope.issues
          found == OutcomeDiagnostics(body)
          raw_text == "FHIR server returned status " \o ToString(upstream[t].status)
                        \o ": " \o body.text
      IN /\ response[t].kind = "error"
         /\ response[t].http_status = upstream[t].status
         /\ UnexpectedBody(body) =>
              IF request[t].route = "search" /\ upstream[t].status \in {405, 422}
              THEN /\ issues[1].code \in {"method-not-allowed", "unprocessable-entity"}
                   /\ issues[1].diagnostics =
                        (IF found # << >> THEN Join(found, "; ") ELSE raw_text)
              ELSE IF request[t].route = "read" /\ HasNotFoundIssue(body)
              THEN issues[1].code = "not-found"
              ELSE IsGenericUpstreamError(t)

\* A search answered 422 with plain text: the method-or-entity error, with
\* the raw text in its diagnostics.
C17_Witness ==
  \E t \in Threads :
    /\ SearchFailed(t)
    /\ upstream[t].status = 422
    /\ upstream[t].body.kind = "text"
    /\ response[t].kind = "error"
    /\ response[t].envelope.issues[1].code = "unprocessable-entity"
    /\ response[t].envelope.issues[1].diagnostics
         = "FHIR server returned status 422: Internal Server Error"

\* C18: on the read path, a non-success upstream response whose body is an
\* OperationOutcome (a list of issue objects) with a not-found issue yields
\* the not-found envelope: one issue with code not-found and diagnostics
\* "No <resourceType> resource was found with ID '<id>'.", status_code the
\* upstream status; the generic fallback is not used.
C18_NotFoundById ==
  \A t \in Threads :
    (/\ ReadFailed(t)
     /\ HasNotFoundIssue(upstream[t].body)
     /\ \A i \in DOMAIN upstream[t].body.data.v.issue.v :
          upstream[t].body.data.v.issue.v[i].t = "obj") =>
      LET envelope == response[t].envelope
          text == "No " \o request[t].resource \o " resource was found with ID '"
                    \o IdText(request[t].resource_id) \o "'."
      IN /\ response[t].kind = "error"
         /\ response[t].http_status = upstream[t].status
         /\ envelope.status_code = upstream[t].status
         /\ envelope.error = "Not found"
         /\ envelope.friendly_message = text
         /\ envelope.resource_type = request[t].resource
         /\ envelope.resource_id = IdText(request[t].resource_id)
         /\ Len(envelope.issues) = 1
         /\ envelope.issues[1].severity = "error"
         /\ envelope.issues[1].code = "not-found"
         /\ envelope.issues[1].diagnostics = text

\* A read answered 404 with a not-found outcome.
C18_Witness ==
  \E t \in Threads :
    /\ ReadFailed(t)
    /\ upstream[t].status = 404
    /\ C13_IsOutcome(upstream[t].body)
    /\ HasNotFoundIssue(upstream[t].body)
    /\ response[t].kind = "error"
    /\ response[t].envelope.issues[1].code = "not-found"
    /\ response[t].envelope.status_code = 404

\* render_error has been called with a known (an unknown) error type.
KnownCall == render_call # NoCall /\ render_call.error_type \in DOMAIN CODE_ERROR_DEFS
UnknownCall == render_call # NoCall /\ render_call.error_type \notin DOMAIN CODE_ERROR_DEFS

\* The field is absent from the context of the call, or None.
Missing(field) ==
  field \notin DOMAIN render_call.error_data \/ render_call.error_data[field] = JNull

\* The required fields of the call's error type that are missing, in the
\* order of the template table.
MissingRequired ==
  SelectSeq(CODE_ERROR_DEFS[render_call.error_type].required_fields, Missing)

\* The issues the caller passed.
CallerIssuesOfCall ==
  IF "issues" \in DOMAIN render_call.error_data THEN render_call.error_data.issues
  ELSE << >>

IsIncompleteContext(issue) == issue.code = "incomplete-context"

\* The incomplete-context issue is the last issue and the only one, and it
\* names exactly the missing required fields.
ReportsMissing(issues, missing) ==
  /\ Len(issues) = Len(CallerIssuesOfCall) + 1
  /\ Len(SelectSeq(issues, IsIncompleteContext)) = 1
  /\ issues[Len(issues)].severity = "information"
  /\ issues[Len(issues)].code = "incomplete-context"
  /\ issues[Len(issues)].diagnostics
       = "Warning: Missing fields for this error: " \o ReprList(missing)

\* The placeholders of the two fields the not_found and invalid_id messages
\* name.
ShowsPlaceholders(envelope) ==
  /\ (render_call.error_type = "not_found" /\ Missing("resource_type")
        /\ Missing("resource_id")) =>
       (envelope.friendly_message
          = "No <missing resource_type> resource was found with ID '<missing resource_id>'.")
  /\ (render_call.error_type = "invalid_id" /\ ~Missing("resource_type")
        /\ Missing("resource_id")) =>
       (envelope.friendly_message
          = "The ID '<missing resource_id>' is not valid for resource type 'Patient'.")
  /\ (render_call.error_type = "missing_param" /\ Missing("resource_type")) =>
       (envelope.friendly_message
          = "No query parameters were provided for resource '<missing resource_type>'. At least one search parameter is required.")

\* C19: for every known error kind, rendering with required context fields
\* absent or None returns an envelope in which each missing field reads
\* "<missing FIELD>" and exactly one issue (information, incomplete-context,
\* naming exactly the missing required fields) follows the caller's issues;
\* with no required field missing there is no such issue.
C19_MissingFieldsAreReported ==
  KnownCall =>
    /\ render_result.ok
    /\ (MissingRequired # << >>) =>
         /\ ReportsMissing(render_result.val.issues, MissingRequired)
         /\ ShowsPlaceholders(render_result.val)
    /\ (MissingRequired = << >>) =>
         /\ Len(render_result.val.issues) = Len(CallerIssuesOfCall)
         /\ SelectSeq(render_result.val.issues, IsIncompleteContext) = << >>

\* The call has a supported_param_schema with descriptors to show.
HasSchema ==
  /\ "supported_param_schema" \in DOMAIN render_call.error_data
  /\ render_call.error_data.supported_param_schema # << >>

\* C20: rendering an error kind that has no template never fails: for every
\* context it returns an envelope whose friendly_message is the context's
\* diagnostics, or "An error occurred." when diagnostics is absent, whose
\* next_steps is empty unless a parameter table is available, and which has
\* no incomplete-context issue.
C20_UnknownKindNeverFails ==
  UnknownCall =>
    /\ render_result.ok
    /\ render_result.val.friendly_message =
         (IF "diagnostics" \in DOMAIN render_call.error_data
          THEN render_call.error_data.diagnostics.v
          ELSE "An error occurred.")
    /\ (~HasSchema) => (render_result.val.next_steps = Null)
    /\ HasSchema => (render_result.val.next_steps # Null)
    /\ Len(render_result.val.issues) = Len(CallerIssuesOfCall)
    /\ SelectSeq(render_result.val.issues, IsIncompleteContext) = << >>

\* C21: for every error kind of the template table and every context, also
\* one that lacks a field a template mentions, render_error returns an
\* envelope and does not raise.
C21_KnownKindNeverRaises == KnownCall => render_result.ok

\* The value the renderer is to emit for a field of a caller's issue: the
\* issue's own value, or the default when the field is absent or null.
IssueDefault(field) ==
  CASE field = "severity" -> "error"
    [] field = "code" -> "unknown"
    [] field = "diagnostics" -> "<missing diagnostics>"
    [] field = "details" -> "<missing details>"

IssueFields == {"severity", "code", "diagnostics", "details"}

\* C22: every issue of every envelope the renderer emits has severity, code,
\* diagnostics and details populated and non-null, also for a caller's issue
\* that omits a field or carries it as null; an absent or null value becomes
\* 'error', 'unknown', '<missing diagnostics>' or '<missing details>'.
C22_IssueFieldsPopulated ==
  (render_call # NoCall /\ render_result.ok) =>
    /\ \A i \in DOMAIN render_result.val.issues :
         \A f \in IssueFields :
           /\ f \in DOMAIN render_result.val.issues[i]
           /\ render_result.val.issues[i][f] # Null
    /\ \A i \in DOMAIN CallerIssuesOfCall :
         \A f \in IssueFields :
           render_result.val.issues[i][f] =
             (IF f \in DOMAIN CallerIssuesOfCall[i] /\ CallerIssuesOfCall[i][f] # JNull
              THEN CallerIssuesOfCall[i][f].v
              ELSE IssueDefault(f))

\* The string s starts with the string prefix.
StartsWith(s, prefix) == Len(s) >= Len(prefix) /\ SubSeq(s, 1, Len(prefix)) = prefix

TableHeader == "| name | type | documentation | example |"

\* The markdown table of a list of descriptors: the header, the rule, and
\* one row per descriptor with an empty cell for an absent value.
RECURSIVE SchemaRows(_)
SchemaRows(schema) ==
  IF schema = << >> THEN ""
  ELSE LET d == Head(schema)
           Shown(v) == IF v = Null THEN "" ELSE v
       IN NL \o "| " \o Shown(d.name) \o " | " \o Shown(d.type) \o " | "
            \o Shown(d.documentation) \o " | " \o Shown(d.example) \o " |"
            \o SchemaRows(Tail(schema))
SchemaTable(schema) == TableHeader \o NL \o "| --- | --- | --- | --- |" \o SchemaRows(schema)

\* render_error was called with a supported_param_schema and returned.
RenderedWithSchema ==
  /\ render_call # NoCall
  /\ render_result.ok
  /\ "supported_param_schema" \in DOMAIN render_call.error_data

\* The search of thread t was rejected for its parameters on a known type.
ParamRejection(t) ==
  /\ pc[t] = "done"
  /\ request[t].route = "search"
  /\ resource_calls[t] = 0
  /\ KnownType(t)
  /\ response[t].kind = "error"
  /\ response[t].envelope.issues[1].code
       \in {"duplicate-param", "invalid-param", "missing-param"}

\* C23 as stated: whenever the context carries supported_param_schema, the
\* envelope's next_steps starts with the table of its descriptors, for known
\* and unknown kinds alike; every duplicate-, unsupported- and
\* missing-parameter rejection on a known type has the table.
C23_TableWheneverSchema ==
  /\ RenderedWithSchema =>
       StartsWith(render_result.val.next_steps,
                  SchemaTable(render_call.error_data.supported_param_schema))
  /\ \A t \in Threads :
       ParamRejection(t) =>
         StartsWith(response[t].envelope.next_steps,
                    SchemaTable(local_idx[t][request[t].resource]))

\* C23, amended: whenever the context carries a supported_param_schema with
\* at least one descriptor, next_steps starts with the table (header and one
\* row per descriptor), for known and unknown kinds alike, and with an empty
\* list there is no table; every duplicate-, unsupported- and
\* missing-parameter rejection on a known type that declares a parameter has
\* the table.
C23_TableWhenDescriptors ==
  /\ RenderedWithSchema =>
       LET schema == render_call.error_data.supported_param_schema IN
       IF schema # << >>
       THEN StartsWith(render_result.val.next_steps, SchemaTable(schema))
       ELSE ~StartsWith(render_result.val.next_steps, TableHeader)
  /\ \A t \in Threads :
       ParamRejection(t) =>
         LET schema == local_idx[t][request[t].resource] IN
         IF schema # << >>
         THEN StartsWith(response[t].envelope.next_steps, SchemaTable(schema))
         ELSE ~StartsWith(response[t].envelope.next_steps, TableHeader)

\* An empty query on Patient, rejected with the table of Patient's three
\* descriptors ahead of the guidance.
C23_Witness ==
  \E t \in Threads :
    /\ ParamRejection(t)
    /\ response[t].envelope.issues[1].code = "missing-param"
    /\ Len(local_idx[t][request[t].resource]) = 3
    /\ StartsWith(response[t].envelope.next_steps,
                  SchemaTable(local_idx[t][request[t].resource]))
    /\ Len(response[t].envelope.next_steps)
         > Len(SchemaTable(local_idx[t][request[t].resource]))

\* s has sub as a substring.
Contains(s, sub) ==
  \E i \in 1..(Len(s) - Len(sub) + 1) : SubSeq(s, i, i + Len(sub) - 1) = sub

\* A validated search was forwarded and answered with a status below 400
\* whose body is a Bundle with no entries (entry absent or empty).
EmptySearchResult(t) ==
  /\ pc[t] = "done"
  /\ request[t].route = "search"
  /\ resource_calls[t] = 1
  /\ upstream[t].status < 400
  /\ upstream[t].body.kind = "json"
  /\ upstream[t].body.data.t = "obj"
  /\ IsStr(Get(upstream[t].body.data.v, "resourceType", JNull), "Bundle")
  /\ \/ "entry" \notin DOMAIN upstream[t].body.data.v
     \/ upstream[t].body.data.v.entry = JArr(<< >>)

\* The header of the supported-parameter table of the empty-result guidance.
BundleTableHeader == "| name | type | documentation | example |" \o NL \o "| --- | --- | --- | --- |" \o NL

\* C24: a validated search answered with a success carrying a Bundle with no
\* entries yields HTTP 200 with the payload {resourceType: Bundle, entry: [],
\* friendly_message, next_steps}; next_steps echoes every submitted query
\* parameter as a "key: value" line and contains the supported-parameter
\* table exactly when the resource type has declared parameters; the
\* upstream body is not passed through.
C24_EmptyBundleGuidance ==
  \A t \in Threads :
    EmptySearchResult(t) =>
      LET declared == Get(capability_index, request[t].resource, << >>) IN
      /\ response[t].kind = "empty"
      /\ response[t].http_status = 200
      /\ DOMAIN response[t].payload
           = {"resourceType", "entry", "friendly_message", "next_steps"}
      /\ response[t].payload.resourceType = "Bundle"
      /\ response[t].payload.entry = << >>
      /\ Contains(response[t].payload.friendly_message, "No " \o request[t].resource)
      /\ \A key \in Keys(request[t].args) :
           Contains(response[t].payload.next_steps,
                    "  " \o key \o ": " \o ArgValue(key) \o NL)
      /\ Contains(response[t].payload.next_steps, BundleTableHeader)
           <=> declared # << >>
      /\ \A i \in 1..Len(declared) :
           Contains(response[t].payload.next_steps,
                    "| " \o FString(declared[i].name) \o " | "
                      \o FString(declared[i].type) \o " | ")

\* A search on two keys was answered 200 with a Bundle that has no entry
\* member, and the guidance was returned.
C24_Witness ==
  \E t \in Threads :
    /\ EmptySearchResult(t)
    /\ Cardinality(Keys(request[t].args)) = 2
    /\ "entry" \notin DOMAIN upstream[t].body.data.v
    /\ response[t].kind = "empty"
    /\ Contains(response[t].payload.next_steps, BundleTableHeader)

\* The ten hop-by-hop header names.
HopByHop ==
  {"transfer-encoding", "content-encoding", "content-length", "connection",
   "keep-alive", "proxy-authenticate", "proxy-authorization", "te", "trailer", "upgrade"}

\* The body is a Bundle without entries: no entry member, or one that holds
\* nothing.
BundleWithoutEntries(body) ==
  /\ body.kind = "json"
  /\ body.data.t = "obj"
  /\ IsStr(Get(body.data.v, "resourceType", JNull), "Bundle")
  /\ \/ "entry" \notin DOMAIN body.data.v
     \/ body.data.v.entry \in {JNull, JStr(""), JArr(<< >>)}
     \/ body.data.v.entry.t = "obj" /\ DOMAIN body.data.v.entry.v = {}

\* A validated request was forwarded and answered with a success that has
\* results: a read with a 2xx status, a search with a status below 400 whose
\* body is no Bundle without entries.
SuccessWithResults(t) ==
  /\ pc[t] = "done"
  /\ resource_calls[t] = 1
  /\ \/ /\ request[t].route = "read"
        /\ 200 <= upstream[t].status /\ upstream[t].status < 300
     \/ /\ request[t].route = "search"
        /\ upstream[t].status < 400
        /\ ~BundleWithoutEntries(upstream[t].body)

\* C25: a validated request answered with a success with results returns the
\* upstream body and status unmodified, with exactly the hop-by-hop headers
\* (compared case-insensitively) removed and every other upstream header
\* preserved with its value.
C25_PassThroughFiltered ==
  \A t \in Threads :
    SuccessWithResults(t) =>
      /\ response[t].kind = "pass"
      /\ response[t].http_status = upstream[t].status
      /\ response[t].body = upstream[t].body
      /\ DOMAIN response[t].headers
           = {k \in DOMAIN upstream[t].headers : Lower(k) \notin HopByHop}
      /\ \A k \in DOMAIN response[t].headers :
           response[t].headers[k] = upstream[t].headers[k]

\* A search answered 200 with a Bundle that has an entry, whose headers hold
\* hop-by-hop names in upper case among end-to-end ones: some were removed
\* and some were kept.
C25_Witness ==
  \E t \in Threads :
    /\ SuccessWithResults(t)
    /\ request[t].route = "search"
    /\ "TRANSFER-ENCODING" \in DOMAIN upstream[t].headers
    /\ response[t].kind = "pass"
    /\ "TRANSFER-ENCODING" \notin DOMAIN response[t].headers
    /\ "X-Request-Id" \in DOMAIN response[t].headers

SuggestionMark == " Did you mean: "

\* The positions at which sub occurs in s.
Occurrences(s, sub) ==
  {i \in 1..(Len(s) - Len(sub) + 1) : SubSeq(s, i, i + Len(sub) - 1) = sub}

\* The text before the suggestions, the whole text when there are none.
StripSuggestion(s) ==
  LET found == Occurrences(s, SuggestionMark) IN
  IF found = {} THEN s
  ELSE SubSeq(s, 1, (CHOOSE i \in found : \A j \in found : i <= j) - 1)

\* Two texts, null or not, that agree but for the suggestions.
SameText(a, b) ==
  IF a = Null \/ b = Null \/ a = b THEN a = b
  ELSE StripSuggestion(a) = StripSuggestion(b)

\* Two responses that agree on everything except the suggestion text.
SameButSuggestions(a, b) ==
  /\ a.kind = b.kind
  /\ (a.kind # "none") => (a.http_status = b.http_status)
  /\ (a.kind = "error") =>
       /\ a.envelope.error = b.envelope.error
       /\ a.envelope.status_code = b.envelope.status_code
       /\ a.envelope.resource_type = b.envelope.resource_type
       /\ a.envelope.resource_id = b.envelope.resource_id
       /\ SameText(a.envelope.friendly_message, b.envelope.friendly_message)
       /\ SameText(a.envelope.next_steps, b.envelope.next_steps)
       /\ Len(a.envelope.issues) = Len(b.envelope.issues)
       /\ \A i \in 1..Len(a.envelope.issues) :
            /\ a.envelope.issues[i].severity = b.envelope.issues[i].severity
            /\ a.envelope.issues[i].code = b.envelope.issues[i].code
            /\ a.envelope.issues[i].details = b.envelope.issues[i].details
            /\ SameText(a.envelope.issues[i].diagnostics, b.envelope.issues[i].diagnostics)

\* Two validation outcomes that agree on the decision to forward and, but
\* for the suggestion text, on the response.
SameOutcome(a, b) ==
  /\ a.is_valid = b.is_valid
  /\ SameButSuggestions(a.error_response, b.error_response)

\* C26: the fuzzy matcher only changes diagnostics text: a request decided
\* under one answer of the matcher gets, under any other answer, the same
\* validation outcome kind, the same decision to forward and the same HTTP
\* status, and the two responses agree on everything except the "Did you
\* mean" text. The response of a thread was made under an earlier answer of
\* the matcher; the prevalidation is made again under its answer now.
C26_MatcherOnlyChangesText ==
  \A t \in Threads :
    /\ (pc[t] = "done" /\ resource_calls[t] = 0) =>
         SameOutcome(Invalid(response[t]), Prevalidate(local_idx[t], request[t]))
    /\ (pc[t] \in {"upstream", "done"} /\ resource_calls[t] = 1) =>
         Prevalidate(local_idx[t], request[t]).is_valid

\* A search on a misspelt key was rejected with the suggestion of a close
\* name, and the matcher now reports nothing as close: the prevalidation made
\* again has no suggestion.
C26_Witness ==
  \E t \in Threads :
    /\ pc[t] = "done" /\ resource_calls[t] = 0
    /\ request[t].route = "search"
    /\ response[t].kind = "error"
    /\ Contains(response[t].envelope.issues[1].diagnostics, "'nmae' -> 'name'")
    /\ matcher = {}
    /\ Prevalidate(local_idx[t], request[t]).error_response # response[t]

\* C27: the JSON payload returned for an upstream search failure classified
\* by rules 1-4 has a top-level supported_param_schema field listing the
\* resource type's parameter descriptors, and for the unsupported-parameter
\* category also an unsupported_params field.
C27_PayloadCarriesSchema ==
  \A t \in Threads :
    (/\ SearchFailed(t)
     /\ C13_IsOutcome(upstream[t].body)
     /\ C13_Selected(upstream[t].body) # << >>
     /\ response[t].kind = "error") =>
      LET issues == upstream[t].body.data.v.issue.v IN
      /\ "supported_param_schema" \in DOMAIN response[t].envelope
      /\ response[t].envelope.supported_param_schema
           = Get(capability_index, request[t].resource, << >>)
      /\ (SelectSeq(issues, C13_Rule1) = << >> /\ SelectSeq(issues, C13_Rule2) # << >>) =>
           "unsupported_params" \in DOMAIN response[t].envelope

\* The resource type is in the index with no descriptor that has a name.
NoNamedParameters(index, resource) ==
  /\ resource \in DOMAIN index
  /\ \A i \in DOMAIN index[resource] : index[resource][i].name \in {Null, ""}

\* C28: for a resource type that is in the capability index with an empty
\* parameter list (or only name-less descriptors) no search passes
\* prevalidation: a query with any key is rejected as duplicate or
\* unsupported parameter, an empty query as missing-parameter, and nothing
\* is forwarded upstream.
C28_NoSearchWithoutParameters ==
  \A t \in Threads :
    (/\ pc[t] \in {"upstream", "done"}
     /\ request[t].route = "search"
     /\ NoNamedParameters(local_idx[t], request[t].resource)) =>
      /\ pc[t] = "done"
      /\ resource_calls[t] = 0
      /\ upstream[t] = NoUpstream
      /\ response[t].kind = "error"
      /\ response[t].http_status = 400
      /\ response[t].envelope.issues[1].code
           = IF Keys(request[t].args) = {} THEN "missing-param"
             ELSE IF \E k \in Keys(request[t].args) : request[t].args[k] > 1
             THEN "duplicate-param"
             ELSE "invalid-param"

\* A search on a type indexed with no parameters, with the one key "name",
\* was rejected as unsupported parameter.
C28_Witness ==
  \E t \in Threads :
    /\ pc[t] = "done"
    /\ request[t].route = "search"
    /\ local_idx[t][request[t].resource] = << >>
    /\ Keys(request[t].args) = {"name"}
    /\ request[t].args["name"] = 1
    /\ resource_calls[t] = 0
    /\ response[t].envelope.issues[1].code = "invalid-param"

\* The codes of the issues the status rule makes up.
StatusRuleCodes == {"method-not-allowed", "unprocessable-entity"}

\* A search failure with status 405 or 422 whose body is an OperationOutcome
\* with an issue matched by rules 1-4.
RuleMatchedAt405Or422(t) ==
  /\ SearchFailed(t)
  /\ upstream[t].status \in {405, 422}
  /\ C13_IsOutcome(upstream[t].body)
  /\ C13_Selected(upstream[t].body) # << >>

\* C29: the status-based 405/422 rule never overrides an issue-code rule:
\* for an upstream search failure with status 405 or 422 whose
\* OperationOutcome has an issue matched by rules 1-4 the envelope's issues
\* keep the upstream issue codes and contain no method-not-allowed or
\* unprocessable-entity issue.
C29_StatusRuleNeverOverrides ==
  \A t \in Threads :
    RuleMatchedAt405Or422(t) =>
      LET selected == C13_Selected(upstream[t].body) IN
      /\ response[t].kind = "error"
      /\ response[t].http_status = upstream[t].status
      /\ Len(response[t].envelope.issues) = Len(selected)
      /\ \A i \in DOMAIN selected :
           /\ response[t].envelope.issues[i].code \notin StatusRuleCodes
           /\ ("code" \in DOMAIN selected[i].v /\ selected[i].v.code.t = "str") =>
                response[t].envelope.issues[i].code = selected[i].v.code.v

\* A search was answered 422 with an outcome whose only issue has the code
\* processing, and the envelope carries that issue.
C29_Witness ==
  \E t \in Threads :
    /\ RuleMatchedAt405Or422(t)
    /\ upstream[t].status = 422
    /\ Len(upstream[t].body.data.v.issue.v) = 1
    /\ IsStr(Get(upstream[t].body.data.v.issue.v[1].v, "code", JNull), "processing")
    /\ response[t].kind = "error"
    /\ response[t].envelope.issues[1].code = "processing"

\* The body is an OperationOutcome whose issue list has an object with a
\* code of rule 1 or rule 2, whatever else the list and the issue hold.
HasCodeOfRule1Or2(body) ==
  /\ body.kind = "json"
  /\ body.data.t = "obj"
  /\ IsStr(Get(body.data.v, "resourceType", JNull), "OperationOutcome")
  /\ Get(body.data.v, "issue", JNull).t = "arr"
  /\ \E i \in DOMAIN body.data.v.issue.v :
       /\ body.data.v.issue.v[i].t = "obj"
       /\ IssueCode(body.data.v.issue.v[i])
            \in {"invalid", "value", "not-supported", "unknown", "processing"}

\* C29 as stated, for every OperationOutcome with an issue matched by code:
\* at status 405 or 422 the envelope has no method-not-allowed or
\* unprocessable-entity issue.
C29_NeverOverridesAnyOutcome ==
  \A t \in Threads :
    (/\ SearchFailed(t)
     /\ upstream[t].status \in {405, 422}
     /\ HasCodeOfRule1Or2(upstream[t].body)) =>
      /\ response[t].kind = "error"
      /\ \A i \in DOMAIN response[t].envelope.issues :
           response[t].envelope.issues[i].code \notin StatusRuleCodes

\* The envelope has an incomplete-context issue or a "<missing ...>"
\* placeholder in friendly_message or next_steps.
RenderedIncomplete(envelope) ==
  \/ \E i \in DOMAIN envelope.issues : envelope.issues[i].code = "incomplete-context"
  \/ Contains(envelope.friendly_message, "<missing ")
  \/ envelope.next_steps # Null /\ Contains(envelope.next_steps, "<missing ")

\* C30: every envelope produced by the read and search request paths
\* (prevalidation failures and all upstream failure categories) is rendered
\* from a context that supplies every field the chosen template requires:
\* it has no incomplete-context issue and no "<missing ...>" placeholder in
\* friendly_message or next_steps.
C30_RoutesRenderCompleteContext ==
  \A t \in Threads :
    (pc[t] = "done" /\ response[t].kind = "error") =>
      ~RenderedIncomplete(response[t].envelope)

====
